---- MODULE Spec2Model ----
(***************************************************************************)
(* State-machine model of the userscale autoscaling controller             *)
(* (src/scaler/main.py): the EWMA smoothers, the telemetry collection, the  *)
(* per-signal desired-replica calculators, the cooldown / streak gate of    *)
(* ScalingController, the step clamp and the control loop of main().        *)
(*                                                                         *)
(* Python floats are modelled as exact rationals <<n, d>> with d > 0 in     *)
(* lowest terms; Python's None is the empty tuple.                          *)
(***************************************************************************)
EXTENDS Integers, Sequences, FiniteSets, TLC

VARIABLES
    cfg,                \* module-level configuration read by get_env at import
    pc,                 \* position of main() inside / between cycles
    now,                \* the wall clock time.time(), in seconds
    replicas,           \* the orchestrator's deployment spec.replicas
    loc,                \* the locals of the current cycle of main()
    user_ewma,          \* EWMASignal.value of each smoother (None = unset)
    cpu_ewma,
    gpu_ewma,
    latency_ewma,
    last_scale_time,    \* ScalingController fields
    scale_direction,
    consecutive_scales,
    log,                \* the logger lines of the finished cycles, one per cycle
    env,                \* the environment: load scenario now served, budgets left
    call                \* a single call of a pure function: arguments and result

vars == << cfg, pc, now, replicas, loc, user_ewma, cpu_ewma, gpu_ewma,
           latency_ewma, last_scale_time, scale_direction, consecutive_scales,
           log, env, call >>

ctrl == << last_scale_time, scale_direction, consecutive_scales >>
ewmas == << user_ewma, cpu_ewma, gpu_ewma, latency_ewma >>

-----------------------------------------------------------------------------
(* Bounds of the model *)

\* cycles of the control loop that are explored
MaxCycles == 7
\* failed orchestrator calls and external scale operations in one run
MaxDisturbances == 1
\* times the load scenario served by the workload changes in one run
MaxLoadChanges == 1
\* time.time() when main() starts (any value of at least COOLDOWN_PERIOD)
StartTime == 100
\* largest replica count / candidate passed to a pure function call
MaxArg == 12
\* largest user count passed to a call of compute_desired_by_users
MaxUsers == 25
\* longest pod list passed to a call of a collection function
MaxPods == 2
\* most updates of one EWMASignal in a sequence of calls
MaxUpdates == 3
\* times the turn passes from one controller process to the other in one run
MaxSwitches == 3
\* requests the sample workload handles at the same time
MaxRequests == 2
\* calls of /load/cpu/start and /load/cpu/stop handled at the same time
MaxCallers == 2
\* CPU load worker threads created in one run
MaxThreads == 2

-----------------------------------------------------------------------------
(* Exact rational arithmetic standing for Python float arithmetic *)

None == << >>

\* The arithmetic is written as functions: their arguments are evaluated once.
GCD[a \in Nat, b \in Nat] == IF b = 0 THEN a ELSE GCD[b, a % b]

Abs(x) == IF x < 0 THEN -x ELSE x

Normal[n \in Int, d \in Int] ==
    LET g == GCD[Abs(n), Abs(d)]
        s == IF d < 0 THEN -1 ELSE 1
    IN  << (s * n) \div g, (s * d) \div g >>

\* the rational n / d in lowest terms
Rat(n, d) == Normal[n, d]

FromInt(i) == << i, 1 >>

Sum[a \in Int \X Int, b \in Int \X Int] ==
    LET g == GCD[a[2], b[2]]
        l == (a[2] \div g) * b[2]
    IN  Normal[a[1] * (l \div a[2]) + b[1] * (l \div b[2]), l]

Product[a \in Int \X Int, b \in Int \X Int] ==
    LET x == Normal[a[1], b[2]]
        y == Normal[b[1], a[2]]
    IN  Normal[x[1] * y[1], x[2] * y[2]]

RatAdd(a, b) == Sum[a, b]

RatMul(a, b) == Product[a, b]

RatSub(a, b) == Sum[a, << -b[1], b[2] >>]

RatDiv(a, b) == Product[a, Normal[b[2], b[1]]]

RatLt(a, b) == a[1] * b[2] < b[1] * a[2]

RatLe(a, b) == a[1] * b[2] <= b[1] * a[2]

\* int(x): truncation toward zero
Trunc(a) == IF a[1] >= 0 THEN a[1] \div a[2] ELSE -((-a[1]) \div a[2])

\* math.ceil(a / b) for integers a and b > 0
CeilDiv(a, b) == -((-a) \div b)

Min(a, b) == IF a < b THEN a ELSE b
Max(a, b) == IF a > b THEN a ELSE b

RECURSIVE SumSeq(_)
SumSeq(s) == IF s = << >> THEN 0 ELSE Head(s) + SumSeq(Tail(s))

-----------------------------------------------------------------------------
(* Configuration: get_env(name, default) of every option *)

DefaultConfig ==
    [ SYNC_PERIOD          |-> 15,
      ALPHA                |-> << 3, 5 >>,
      MIN_REPLICAS         |-> 1,
      MAX_REPLICAS         |-> 20,
      USERS_TARGET_PER_POD |-> 10,
      CPU_TARGET           |-> 50,
      GPU_TARGET           |-> 60,
      LATENCY_TARGET_MS    |-> 200,
      SCALE_UP_STEP        |-> 2,
      SCALE_DOWN_STEP      |-> 1,
      COOLDOWN_PERIOD      |-> 30,
      GPU_PROM_BASE        |-> FALSE ]

\* An environment that overrides some options: no smoothing, a cooldown of
\* one period, a lower ceiling, a larger down step, a GPU backend.
OverrideConfig ==
    [ DefaultConfig EXCEPT
      !.ALPHA = << 1, 1 >>,
      !.MAX_REPLICAS = 10,
      !.SCALE_DOWN_STEP = 2,
      !.COOLDOWN_PERIOD = 15,
      !.GPU_PROM_BASE = TRUE ]

Configs == { DefaultConfig, OverrideConfig }

SYNC_PERIOD == cfg.SYNC_PERIOD
ALPHA == cfg.ALPHA
MIN_REPLICAS == cfg.MIN_REPLICAS
MAX_REPLICAS == cfg.MAX_REPLICAS
USERS_TARGET_PER_POD == cfg.USERS_TARGET_PER_POD
CPU_TARGET == cfg.CPU_TARGET
GPU_TARGET == cfg.GPU_TARGET
LATENCY_TARGET_MS == cfg.LATENCY_TARGET_MS
SCALE_UP_STEP == cfg.SCALE_UP_STEP
SCALE_DOWN_STEP == cfg.SCALE_DOWN_STEP
COOLDOWN_PERIOD == cfg.COOLDOWN_PERIOD
GPU_PROM_BASE == cfg.GPU_PROM_BASE

-----------------------------------------------------------------------------
(* EWMASignal *)

\* Variant of EWMA_update: the weights of the input and of the old value are
\* exchanged
EWMA_update_swapped(value, x) ==
    IF value = None
    THEN x
    ELSE RatAdd(RatMul(ALPHA, value), RatMul(RatSub(FromInt(1), ALPHA), x))

\* EWMASignal.update: the new self.value, which is also the value returned
EWMA_update(value, x) ==
    IF value = None
    THEN x
    ELSE RatAdd(RatMul(ALPHA, x), RatMul(RatSub(FromInt(1), ALPHA), value))

-----------------------------------------------------------------------------
(* ScalingController *)

\* Variants of can_scale, each with one slip:
\* a streak is forgotten once two cooldown periods have passed
can_scale_forgets(direction, t) ==
    IF t - last_scale_time < COOLDOWN_PERIOD
    THEN [ ret |-> FALSE,
           scale_direction |-> scale_direction,
           consecutive_scales |-> consecutive_scales ]
    ELSE LET changed == \/ direction # scale_direction
                        \/ t - last_scale_time >= 2 * COOLDOWN_PERIOD
             cs == IF changed THEN 0 ELSE consecutive_scales
         IN  [ ret |-> cs < 3,
               scale_direction |-> direction,
               consecutive_scales |-> cs ]

\* a changed direction is stored before the cooldown is looked at
can_scale_resets_first(direction, t) ==
    LET changed == direction # scale_direction
        cs == IF changed THEN 0 ELSE consecutive_scales
    IN  [ ret |-> t - last_scale_time >= COOLDOWN_PERIOD /\ cs < 3,
          scale_direction |-> direction,
          consecutive_scales |-> cs ]

\* the cooldown check is missing
can_scale_nocooldown(direction, t) ==
    LET changed == direction # scale_direction
        cs == IF changed THEN 0 ELSE consecutive_scales
    IN  [ ret |-> cs < 3,
          scale_direction |-> direction,
          consecutive_scales |-> cs ]

\* the streak limit is one too high
can_scale_cap4(direction, t) ==
    IF t - last_scale_time < COOLDOWN_PERIOD
    THEN [ ret |-> FALSE,
           scale_direction |-> scale_direction,
           consecutive_scales |-> consecutive_scales ]
    ELSE LET changed == direction # scale_direction
             cs == IF changed THEN 0 ELSE consecutive_scales
         IN  [ ret |-> cs < 4,
               scale_direction |-> direction,
               consecutive_scales |-> cs ]

\* the streak limit is tested on the count as it was before the reset
can_scale_stale(direction, t) ==
    IF t - last_scale_time < COOLDOWN_PERIOD
    THEN [ ret |-> FALSE,
           scale_direction |-> scale_direction,
           consecutive_scales |-> consecutive_scales ]
    ELSE LET changed == direction # scale_direction
         IN  [ ret |-> consecutive_scales < 3,
               scale_direction |-> direction,
               consecutive_scales |-> IF changed THEN 0
                                      ELSE consecutive_scales ]

\* a changed direction is stored but the count is not reset
can_scale_noreset(direction, t) ==
    IF t - last_scale_time < COOLDOWN_PERIOD
    THEN [ ret |-> FALSE,
           scale_direction |-> scale_direction,
           consecutive_scales |-> consecutive_scales ]
    ELSE [ ret |-> direction # scale_direction \/ consecutive_scales < 3,
           scale_direction |-> direction,
           consecutive_scales |-> consecutive_scales ]

\* the count is incremented by the gate already
can_scale_counts(direction, t) ==
    IF t - last_scale_time < COOLDOWN_PERIOD
    THEN [ ret |-> FALSE,
           scale_direction |-> scale_direction,
           consecutive_scales |-> consecutive_scales ]
    ELSE LET changed == direction # scale_direction
             cs == IF changed THEN 0 ELSE consecutive_scales
         IN  [ ret |-> cs < 3,
               scale_direction |-> direction,
               consecutive_scales |-> IF cs < 3 THEN cs + 1 ELSE cs ]

\* ScalingController.can_scale(direction) at time t: the value returned and
\* the fields it leaves behind
can_scale(direction, t) ==
    IF t - last_scale_time < COOLDOWN_PERIOD
    THEN [ ret |-> FALSE,
           scale_direction |-> scale_direction,
           consecutive_scales |-> consecutive_scales ]
    ELSE LET changed == direction # scale_direction
             cs == IF changed THEN 0 ELSE consecutive_scales
             sd == IF changed THEN direction ELSE scale_direction
         IN  [ ret |-> IF direction # sd THEN TRUE ELSE cs < 3,
               scale_direction |-> sd,
               consecutive_scales |-> cs ]

\* Variants of record_scale, each with one slip:
\* the time of the scale is not stored
record_scale_no_time(direction, t) ==
    [ last_scale_time |-> last_scale_time,
      scale_direction |-> direction,
      consecutive_scales |-> consecutive_scales + 1 ]

\* the scale is counted twice
record_scale_twice(direction, t) ==
    [ last_scale_time |-> t,
      scale_direction |-> direction,
      consecutive_scales |-> consecutive_scales + 2 ]

\* ScalingController.record_scale(direction) at time t: the new fields
record_scale(direction, t) ==
    [ last_scale_time |-> t,
      scale_direction |-> direction,
      consecutive_scales |-> consecutive_scales + 1 ]

-----------------------------------------------------------------------------
(* The environment: what the replicas and the GPU backend answer *)

\* One pod of the list and what its /metrics endpoint answers. The body is
\* "ok" (a JSON object with the fields below), "not_json" (r.json() raises),
\* "bad_users" (active_users is a value int() rejects) or "bad_cpu"
\* (cpu_percent is a value float() rejects, e.g. null)
Pod(ip, reachable, status, body, users, cpu, matrix) ==
    [ pod_ip |-> ip, reachable |-> reachable, status_code |-> status,
      body |-> body, active_users |-> users, cpu_percent |-> cpu,
      matrix |-> matrix ]

HealthyPod(users, cpu, matrix) == Pod(TRUE, TRUE, 200, "ok", users, cpu, matrix)

\* An idle workload: one replica, nothing in flight; the GPU backend is down
IdleLoad ==
    [ pods |-> << HealthyPod(0, 10, 50) >>,
      gpu  |-> [ up |-> FALSE, result |-> << >> ] ]

\* A saturated workload: 120 users on two replicas, CPU at 91 %, slow answers;
\* the GPU backend answers with no series
BusyLoad ==
    [ pods |-> << HealthyPod(70, 91, 400), HealthyPod(50, 91, 400) >>,
      gpu  |-> [ up |-> TRUE, result |-> << >> ] ]

\* A GPU-bound workload: few users, CPU slightly above target, one replica
\* timing out, one without an address yet; the GPU backend reports 90 %
GpuLoad ==
    [ pods |-> << HealthyPod(30, 55, 250),
                  Pod(TRUE, FALSE, 200, "ok", 40, 99, 900),
                  Pod(FALSE, TRUE, 200, "ok", 40, 99, 900) >>,
      gpu  |-> [ up |-> TRUE, result |-> << 90 >> ] ]

Loads == { IdleLoad, BusyLoad, GpuLoad }

\* A workload under a sustained load that only the users signal reports:
\* 120 users, CPU and latency inside their dead bands, no GPU reading
SteadyLoad ==
    [ pods |-> << HealthyPod(70, 40, 150), HealthyPod(50, 40, 150) >>,
      gpu  |-> [ up |-> FALSE, result |-> << >> ] ]

\* A workload under a moderate load: 70 users, CPU and latency inside their
\* dead bands, no GPU reading
ModerateLoad ==
    [ pods |-> << HealthyPod(40, 40, 150), HealthyPod(30, 40, 150) >>,
      gpu  |-> [ up |-> FALSE, result |-> << >> ] ]

\* A workload nobody uses yet: no users, CPU at rest, no /matrix request
\* measured, so latency_ms_p50.matrix is 0.0; no GPU reading
ColdLoad ==
    [ pods |-> << HealthyPod(0, 10, 0), HealthyPod(0, 10, 0) >>,
      gpu  |-> [ up |-> FALSE, result |-> << >> ] ]

\* seconds the scale patch call takes (one value for a whole run)
PatchLatencies == { 0, 1 }

\* replica counts an external actor sets (kubectl scale): zero, and more than
\* a step above the ceiling
ExternalCounts == { 0, MAX_REPLICAS + 3 }

-----------------------------------------------------------------------------
(* Telemetry collection *)

\* Variant of get_current_replicas: the count the controller wrote last is
\* taken for the orchestrator's count
get_current_replicas_cached ==
    IF log # << >> /\ log[Len(log)].res = "scaled"
    THEN log[Len(log)].bounded
    ELSE replicas

\* get_current_replicas: dep.spec.replicas or 0
get_current_replicas == IF replicas = 0 THEN 0 ELSE replicas

RECURSIVE UsersCpuLoop(_, _, _)
\* the for loop of get_users_and_cpu over the pods still to visit
UsersCpuLoop(pods, total_active_users, pod_cpu) ==
    IF pods = << >>
    THEN [ total_active_users |-> total_active_users, pod_cpu |-> pod_cpu ]
    ELSE LET p == Head(pods)
         IN  IF ~p.pod_ip
             THEN UsersCpuLoop(Tail(pods), total_active_users, pod_cpu)
             ELSE IF ~p.reachable
             THEN UsersCpuLoop(Tail(pods), total_active_users, pod_cpu)
             ELSE IF p.status_code # 200
             THEN UsersCpuLoop(Tail(pods), total_active_users, pod_cpu)
             ELSE IF p.body \in { "not_json", "bad_users" }
             THEN UsersCpuLoop(Tail(pods), total_active_users, pod_cpu)
             ELSE IF p.body = "bad_cpu"
             THEN UsersCpuLoop(Tail(pods),
                               total_active_users + p.active_users, pod_cpu)
             ELSE UsersCpuLoop(Tail(pods),
                               total_active_users + p.active_users,
                               Append(pod_cpu, p.cpu_percent))

\* get_users_and_cpu: << total_active_users, avg_cpu >>
get_users_and_cpu(pods) ==
    LET r == UsersCpuLoop(pods, 0, << >>)
    IN  << r.total_active_users,
           IF r.pod_cpu # << >>
           THEN Rat(SumSeq(r.pod_cpu), Len(r.pod_cpu))
           ELSE FromInt(0) >>

RECURSIVE LatencyLoop(_, _, _)
\* the for loop of get_avg_latency over the pods still to visit
LatencyLoop(pods, total_latency, pod_count) ==
    IF pods = << >>
    THEN [ total_latency |-> total_latency, pod_count |-> pod_count ]
    ELSE LET pod == Head(pods)
         IN  IF ~pod.pod_ip
             THEN LatencyLoop(Tail(pods), total_latency, pod_count)
             ELSE IF ~pod.reachable \/ pod.body = "not_json"
             THEN LatencyLoop(Tail(pods), total_latency, pod_count)
             ELSE IF pod.matrix > 0
             THEN LatencyLoop(Tail(pods), total_latency + pod.matrix,
                              pod_count + 1)
             ELSE LatencyLoop(Tail(pods), total_latency, pod_count)

\* get_avg_latency
get_avg_latency(pods) ==
    LET r == LatencyLoop(pods, 0, 0)
    IN  Rat(r.total_latency, Max(r.pod_count, 1))

\* query_gpu_util against a backend answering gpu
query_gpu_util(gpu) ==
    IF ~GPU_PROM_BASE THEN None
    ELSE IF ~gpu.up THEN None
    ELSE IF gpu.result # << >> THEN FromInt(Head(gpu.result))
    ELSE None

-----------------------------------------------------------------------------
(* Desired-replica calculators *)

\* Variant of compute_desired_by_users: the floor at MIN_REPLICAS is missing
compute_desired_by_users_nofloor(total_users, replicas_) ==
    CeilDiv(total_users, Max(USERS_TARGET_PER_POD, 1))

compute_desired_by_users(total_users, replicas_) ==
    LET per_pod == USERS_TARGET_PER_POD
        needed == CeilDiv(total_users, Max(per_pod, 1))
    IN  Max(needed, MIN_REPLICAS)

\* Variant of compute_desired_by_latency: a latency of zero is not set apart
compute_desired_by_latency_nozero(avg_latency_ms, target_latency_ms, replicas_) ==
    IF target_latency_ms <= 0
    THEN replicas_
    ELSE IF RatLt(RatMul(FromInt(target_latency_ms), << 3, 2 >>), avg_latency_ms)
    THEN Min(replicas_ * 2, MAX_REPLICAS)
    ELSE IF RatLt(FromInt(target_latency_ms), avg_latency_ms)
    THEN Min(replicas_ + 1, MAX_REPLICAS)
    ELSE IF RatLt(avg_latency_ms, RatMul(FromInt(target_latency_ms), << 1, 2 >>))
    THEN Max(replicas_ - 1, MIN_REPLICAS)
    ELSE replicas_

compute_desired_by_latency(avg_latency_ms, target_latency_ms, replicas_) ==
    IF target_latency_ms <= 0 \/ avg_latency_ms[1] <= 0
    THEN replicas_
    ELSE IF RatLt(RatMul(FromInt(target_latency_ms), << 3, 2 >>), avg_latency_ms)
    THEN Min(replicas_ * 2, MAX_REPLICAS)
    ELSE IF RatLt(FromInt(target_latency_ms), avg_latency_ms)
    THEN Min(replicas_ + 1, MAX_REPLICAS)
    ELSE IF RatLt(avg_latency_ms, RatMul(FromInt(target_latency_ms), << 1, 2 >>))
    THEN Max(replicas_ - 1, MIN_REPLICAS)
    ELSE replicas_

\* Variants of compute_desired_by_util, each with one slip:
\* the doubling is not capped at MAX_REPLICAS
compute_desired_by_util_uncapped(avg_util, target, replicas_) ==
    IF target <= 0
    THEN replicas_
    ELSE LET ratio == RatDiv(avg_util, FromInt(target))
         IN  IF RatLt(<< 6, 5 >>, ratio)
             THEN replicas_ * 2
             ELSE IF RatLt(<< 21, 20 >>, ratio)
             THEN Min(replicas_ + 2, MAX_REPLICAS)
             ELSE IF RatLt(<< 1, 1 >>, ratio)
             THEN Min(replicas_ + 1, MAX_REPLICAS)
             ELSE IF RatLt(ratio, << 7, 10 >>)
             THEN Max(replicas_ - 1, MIN_REPLICAS)
             ELSE replicas_

\* a ratio of exactly 1.2 doubles already
compute_desired_by_util_inclusive(avg_util, target, replicas_) ==
    IF target <= 0
    THEN replicas_
    ELSE LET ratio == RatDiv(avg_util, FromInt(target))
         IN  IF RatLe(<< 6, 5 >>, ratio)
             THEN Min(replicas_ * 2, MAX_REPLICAS)
             ELSE IF RatLt(<< 21, 20 >>, ratio)
             THEN Min(replicas_ + 2, MAX_REPLICAS)
             ELSE IF RatLt(<< 1, 1 >>, ratio)
             THEN Min(replicas_ + 1, MAX_REPLICAS)
             ELSE IF RatLt(ratio, << 7, 10 >>)
             THEN Max(replicas_ - 1, MIN_REPLICAS)
             ELSE replicas_

compute_desired_by_util(avg_util, target, replicas_) ==
    IF target <= 0
    THEN replicas_
    ELSE LET ratio == RatDiv(avg_util, FromInt(target))
         IN  IF RatLt(<< 6, 5 >>, ratio)
             THEN Min(replicas_ * 2, MAX_REPLICAS)
             ELSE IF RatLt(<< 21, 20 >>, ratio)
             THEN Min(replicas_ + 2, MAX_REPLICAS)
             ELSE IF RatLt(<< 1, 1 >>, ratio)
             THEN Min(replicas_ + 1, MAX_REPLICAS)
             ELSE IF RatLt(ratio, << 1, 2 >>)
             THEN Max(replicas_ - 1, MIN_REPLICAS)
             ELSE IF RatLt(ratio, << 7, 10 >>)
             THEN Max(replicas_ - 1, MIN_REPLICAS)
             ELSE replicas_

\* Variants of fuse, each with one slip:
\* the ceiling MAX_REPLICAS is not applied
fuse_unclamped(desired_u, desired_c, desired_l, desired_g) ==
    LET d0 == Max(Max(desired_u, desired_c), desired_l)
        d1 == IF desired_g # None THEN Max(d0, desired_g[1]) ELSE d0
    IN  Max(MIN_REPLICAS, d1)

\* only the users candidate is looked at
fuse_users_only(desired_u, desired_c, desired_l, desired_g) ==
    Max(MIN_REPLICAS, Min(desired_u, MAX_REPLICAS))

\* the GPU candidate is left out
fuse_without_gpu(desired_u, desired_c, desired_l, desired_g) ==
    LET d0 == Max(Max(desired_u, desired_c), desired_l)
    IN  Max(MIN_REPLICAS, Min(d0, MAX_REPLICAS))

\* lines 260-267 of main(): the maximum of the candidates, the GPU candidate
\* joined only when present (desired_g is << >> or << n >>), then the clamp
fuse(desired_u, desired_c, desired_l, desired_g) ==
    LET d0 == Max(Max(desired_u, desired_c), desired_l)
        d1 == IF desired_g # None THEN Max(d0, desired_g[1]) ELSE d0
    IN  Max(MIN_REPLICAS, Min(d1, MAX_REPLICAS))

\* Variants of clamp_step, each with one slip:
\* no step limit at all
clamp_step_unbounded(current, desired) == desired

\* a full down step even when the candidate is nearer
clamp_step_past_desired(current, desired) ==
    IF desired > current THEN Min(current + SCALE_UP_STEP, desired)
    ELSE IF desired < current THEN current - SCALE_DOWN_STEP
    ELSE current

\* a full up step even when the candidate is nearer
clamp_step_up_overshoot(current, desired) ==
    IF desired > current THEN current + SCALE_UP_STEP
    ELSE IF desired < current THEN Max(current - SCALE_DOWN_STEP, desired)
    ELSE current

clamp_step(current, desired) ==
    IF desired > current THEN Min(current + SCALE_UP_STEP, desired)
    ELSE IF desired < current THEN Max(current - SCALE_DOWN_STEP, desired)
    ELSE current

-----------------------------------------------------------------------------
(* The control loop of main() *)

\* the locals of a cycle before anything is assigned; ctrl0 remembers the
\* ScalingController fields at the start of the cycle
FreshLocals(current) ==
    [ current |-> current, ctrl0 |-> ctrl, pods |-> << >>,
      total_users |-> 0, avg_cpu |-> None, avg_latency |-> None,
      gpu_util |-> None,
      u_smooth |-> None, c_smooth |-> None, l_smooth |-> None,
      g_smooth |-> None,
      desired_u |-> 0, desired_c |-> 0, desired_l |-> 0, desired_g |-> None,
      desired |-> 0, scale_direction |-> 0, gate |-> -1, allowed |-> FALSE,
      bounded |-> 0 ]

\* one logger line: what the cycle asked for and how it ended (by names the
\* controller instance when more than one is running)
LogLine(res, l, at) ==
    [ res |-> res, req |-> l.scale_direction, current |-> l.current,
      desired |-> l.desired, bounded |-> l.bounded, gate |-> l.gate,
      issued |-> l.allowed /\ l.bounded # l.current,
      at |-> at, ctrl0 |-> l.ctrl0, by |-> call.args ]

Disturb == [ env EXCEPT !.disturbances = @ + 1 ]

\* the log after one more line (a run that keeps no log leaves it empty)
Logged(line) == IF env.trace THEN Append(log, line) ELSE log

\* Variant of Init: the clock counts from the start of the process, not from
\* the epoch
Init_clock_from_zero ==
    /\ cfg \in Configs
    /\ pc = "read"
    /\ now = 0
    /\ replicas = 1
    /\ user_ewma = None
    /\ cpu_ewma = None
    /\ gpu_ewma = None
    /\ latency_ewma = None
    /\ last_scale_time = 0
    /\ scale_direction = 0
    /\ consecutive_scales = 0
    /\ loc = FreshLocals(0)
    /\ log = << >>
    /\ \E l \in Loads, d \in PatchLatencies :
         env = [ load |-> l, patch_latency |-> d, changes |-> 0,
                 disturbances |-> 0, cycles |-> 0, trace |-> TRUE ]
    /\ call = [ fn |-> "none", args |-> << >>, result |-> << >> ]

Init ==
    /\ cfg \in Configs
    /\ pc = "read"
    /\ now = StartTime
    /\ replicas = 1
    /\ user_ewma = None
    /\ cpu_ewma = None
    /\ gpu_ewma = None
    /\ latency_ewma = None
    /\ last_scale_time = 0
    /\ scale_direction = 0
    /\ consecutive_scales = 0
    /\ loc = FreshLocals(0)
    /\ log = << >>
    /\ \E l \in Loads, d \in PatchLatencies :
         env = [ load |-> l, patch_latency |-> d, changes |-> 0,
                 disturbances |-> 0, cycles |-> 0, trace |-> TRUE ]
    /\ call = [ fn |-> "none", args |-> << >>, result |-> << >> ]

\* line 243: current = get_current_replicas(...)
ReadReplicas ==
    /\ pc = "read"
    /\ env.cycles < MaxCycles
    /\ loc' = FreshLocals(get_current_replicas)
    /\ pc' = "list"
    /\ UNCHANGED << cfg, now, replicas, ewmas, ctrl, log, env, call >>

\* line 243 or line 244 raises: the except clause of line 299 logs, the loop
\* sleeps; nothing of the cycle was assigned (current keeps its old value)
ReadFails ==
    /\ pc = "read"
    /\ env.cycles < MaxCycles
    /\ env.disturbances < MaxDisturbances
    /\ env' = Disturb
    /\ loc' = FreshLocals(loc.current)
    /\ log' = Logged(LogLine("error", loc', now))
    /\ pc' = "sleep"
    /\ UNCHANGED << cfg, now, replicas, ewmas, ctrl, call >>

\* line 244: pods = get_pod_list(...); the workload serves the load it served
\* in the last cycle, or another one
ListPods ==
    /\ pc = "list"
    /\ \E l \in Loads \cup { env.load } :
         /\ l = env.load \/ env.changes < MaxLoadChanges
         /\ env' = [ env EXCEPT !.load = l,
                                !.changes = IF l = env.load THEN @ ELSE @ + 1 ]
         /\ loc' = [ loc EXCEPT !.pods = l.pods ]
    /\ pc' = "collect"
    /\ UNCHANGED << cfg, now, replicas, ewmas, ctrl, log, call >>

\* lines 245-247: the per-replica queries and the GPU query
Collect ==
    /\ pc = "collect"
    /\ LET uc == get_users_and_cpu(loc.pods)
       IN  loc' = [ loc EXCEPT !.total_users = uc[1],
                               !.avg_cpu = uc[2],
                               !.avg_latency = get_avg_latency(loc.pods),
                               !.gpu_util = query_gpu_util(env.load.gpu) ]
    /\ pc' = "smooth"
    /\ UNCHANGED << cfg, now, replicas, ewmas, ctrl, log, env, call >>

\* Variant of Smooth: the latency smoother is not updated before the decision
Smooth_latency_late ==
    /\ pc = "smooth"
    /\ LET u == EWMA_update(user_ewma, FromInt(loc.total_users))
           c == EWMA_update(cpu_ewma, loc.avg_cpu)
           l == EWMA_update(latency_ewma, loc.avg_latency)
           g == IF loc.gpu_util # None
                THEN EWMA_update(gpu_ewma, loc.gpu_util)
                ELSE None
       IN  /\ user_ewma' = u
           /\ cpu_ewma' = c
           /\ latency_ewma' = latency_ewma
           /\ gpu_ewma' = IF loc.gpu_util # None THEN g ELSE gpu_ewma
           /\ loc' = [ loc EXCEPT !.u_smooth = u, !.c_smooth = c,
                                  !.l_smooth = l, !.g_smooth = g ]
    /\ pc' = "decide"
    /\ UNCHANGED << cfg, now, replicas, ctrl, log, env, call >>

\* lines 249-252: the smoothers
Smooth ==
    /\ pc = "smooth"
    /\ LET u == EWMA_update(user_ewma, FromInt(loc.total_users))
           c == EWMA_update(cpu_ewma, loc.avg_cpu)
           l == EWMA_update(latency_ewma, loc.avg_latency)
           g == IF loc.gpu_util # None
                THEN EWMA_update(gpu_ewma, loc.gpu_util)
                ELSE None
       IN  /\ user_ewma' = u
           /\ cpu_ewma' = c
           /\ latency_ewma' = l
           /\ gpu_ewma' = IF loc.gpu_util # None THEN g ELSE gpu_ewma
           /\ loc' = [ loc EXCEPT !.u_smooth = u, !.c_smooth = c,
                                  !.l_smooth = l, !.g_smooth = g ]
    /\ pc' = "decide"
    /\ UNCHANGED << cfg, now, replicas, ctrl, log, env, call >>

\* Variant of Candidates: without a GPU reading the value the GPU smoother
\* holds from an earlier cycle is used
Candidates_stale_gpu(l) ==
    LET desired_u == compute_desired_by_users(Trunc(l.u_smooth), l.current)
        desired_c == compute_desired_by_util(l.c_smooth, CPU_TARGET, l.current)
        desired_l == compute_desired_by_latency(l.l_smooth, LATENCY_TARGET_MS,
                                                l.current)
        desired_g == IF gpu_ewma # None
                     THEN << compute_desired_by_util(gpu_ewma, GPU_TARGET,
                                                     l.current) >>
                     ELSE None
        desired == fuse(desired_u, desired_c, desired_l, desired_g)
    IN  [ l EXCEPT !.desired_u = desired_u, !.desired_c = desired_c,
                   !.desired_l = desired_l, !.desired_g = desired_g,
                   !.desired = desired,
                   !.scale_direction = IF desired > l.current THEN 1
                                       ELSE IF desired < l.current THEN -1
                                       ELSE 0 ]

\* lines 254-274: the candidates, the fused candidate, the direction
Candidates(l) ==
    LET desired_u == compute_desired_by_users(Trunc(l.u_smooth), l.current)
        desired_c == compute_desired_by_util(l.c_smooth, CPU_TARGET, l.current)
        desired_l == compute_desired_by_latency(l.l_smooth, LATENCY_TARGET_MS,
                                                l.current)
        desired_g == IF l.g_smooth # None
                     THEN << compute_desired_by_util(l.g_smooth, GPU_TARGET,
                                                     l.current) >>
                     ELSE None
        desired == fuse(desired_u, desired_c, desired_l, desired_g)
    IN  [ l EXCEPT !.desired_u = desired_u, !.desired_c = desired_c,
                   !.desired_l = desired_l, !.desired_g = desired_g,
                   !.desired = desired,
                   !.scale_direction = IF desired > l.current THEN 1
                                       ELSE IF desired < l.current THEN -1
                                       ELSE 0 ]

\* Variant of Gated: the scale patch call is made in every cycle the gate does
\* not block, a cycle with nothing to change included
Gated_patch_on_none(l) ==
    LET dir == l.scale_direction
        g == can_scale(dir, now)
        bounded == clamp_step(l.current, l.desired)
    IN  IF dir # 0 /\ ~g.ret
        THEN [ loc |-> [ l EXCEPT !.gate = now, !.bounded = l.current ],
               scale_direction |-> g.scale_direction,
               consecutive_scales |-> g.consecutive_scales,
               pc |-> "sleep",
               res |-> "cooldown" ]
        ELSE [ loc |-> [ l EXCEPT !.gate = now, !.allowed = TRUE,
                                  !.bounded = bounded ],
               scale_direction |-> g.scale_direction,
               consecutive_scales |-> g.consecutive_scales,
               pc |-> "patch",
               res |-> "pending" ]

\* lines 276-297: the gate and the step clamp applied to the locals l of a
\* cycle whose candidates are computed: the locals, the ScalingController
\* fields and the position they leave, and the line logged ("pending" when
\* the scale patch call comes next)
Gated(l) ==
    LET dir == l.scale_direction
        g == can_scale(dir, now)
        bounded == clamp_step(l.current, l.desired)
    IN  IF dir # 0
        THEN IF g.ret
             THEN [ loc |-> [ l EXCEPT !.gate = now, !.allowed = TRUE,
                                       !.bounded = bounded ],
                    scale_direction |-> g.scale_direction,
                    consecutive_scales |-> g.consecutive_scales,
                    pc |-> IF bounded # l.current THEN "patch" ELSE "sleep",
                    res |-> IF bounded # l.current THEN "pending"
                            ELSE "step_limits" ]
             ELSE [ loc |-> [ l EXCEPT !.gate = now, !.bounded = l.current ],
                    scale_direction |-> g.scale_direction,
                    consecutive_scales |-> g.consecutive_scales,
                    pc |-> "sleep",
                    res |-> "cooldown" ]
        ELSE [ loc |-> [ l EXCEPT !.bounded = l.current ],
               scale_direction |-> scale_direction,
               consecutive_scales |-> consecutive_scales,
               pc |-> "sleep",
               res |-> "no_scale" ]

\* lines 254-297: the decision of the cycle up to the scale patch call
Decide ==
    /\ pc = "decide"
    /\ LET o == Gated(Candidates(loc))
       IN  /\ loc' = o.loc
           /\ scale_direction' = o.scale_direction
           /\ consecutive_scales' = o.consecutive_scales
           /\ pc' = o.pc
           /\ log' = IF o.res = "pending" THEN log
                     ELSE Logged(LogLine(o.res, o.loc, now))
    /\ UNCHANGED << cfg, now, replicas, ewmas, last_scale_time, env, call >>

\* lines 281-286: the patch succeeds after d seconds, record_scale follows
PatchScale ==
    /\ pc = "patch"
    /\ LET d == env.patch_latency IN
         /\ now' = now + d
         /\ LET r == record_scale(loc.scale_direction, now')
            IN  /\ last_scale_time' = r.last_scale_time
                /\ scale_direction' = r.scale_direction
                /\ consecutive_scales' = r.consecutive_scales
         /\ log' = Logged(LogLine("scaled", loc, now'))
    /\ replicas' = loc.bounded
    /\ pc' = "sleep"
    /\ UNCHANGED << cfg, loc, ewmas, env, call >>

\* Variants of PatchFails, each with one slip:
\* the time of the failed call is recorded as a scale time
PatchFails_starts_cooldown ==
    /\ pc = "patch"
    /\ env.disturbances < MaxDisturbances
    /\ env' = Disturb
    /\ last_scale_time' = now
    /\ log' = Logged(LogLine("error", loc, now))
    /\ pc' = "sleep"
    /\ UNCHANGED << cfg, now, replicas, loc, ewmas, scale_direction,
                    consecutive_scales, call >>

\* the exception is not caught: main() ends
PatchFails_uncaught ==
    /\ pc = "patch"
    /\ env.disturbances < MaxDisturbances
    /\ env' = Disturb
    /\ log' = Logged(LogLine("error", loc, now))
    /\ pc' = "exit"
    /\ UNCHANGED << cfg, now, replicas, loc, ewmas, ctrl, call >>

\* line 282 raises: record_scale is skipped, the except clause logs
PatchFails ==
    /\ pc = "patch"
    /\ env.disturbances < MaxDisturbances
    /\ env' = Disturb
    /\ log' = Logged(LogLine("error", loc, now))
    /\ pc' = "sleep"
    /\ UNCHANGED << cfg, now, replicas, loc, ewmas, ctrl, call >>

\* line 302: time.sleep(SYNC_PERIOD)
Sleep ==
    /\ pc = "sleep"
    /\ now' = now + SYNC_PERIOD
    /\ env' = [ env EXCEPT !.cycles = @ + 1 ]
    /\ pc' = "read"
    /\ UNCHANGED << cfg, replicas, loc, ewmas, ctrl, log, call >>

\* somebody else scales the deployment; the controller can tell only at its
\* next read, so the moments that differ are before a read and before a patch
ExternalScale ==
    /\ pc \in { "read", "patch" }
    /\ env.cycles < MaxCycles
    /\ env.disturbances < MaxDisturbances
    /\ \E n \in ExternalCounts : n # replicas /\ replicas' = n
    /\ env' = Disturb
    /\ UNCHANGED << cfg, pc, now, loc, ewmas, ctrl, log, call >>

Next ==
    \/ ReadReplicas
    \/ ReadFails
    \/ ListPods
    \/ Collect
    \/ Smooth
    \/ Decide
    \/ PatchScale
    \/ PatchFails
    \/ Sleep
    \/ ExternalScale

Spec == Init /\ [][Next]_vars

-----------------------------------------------------------------------------
(* Vocabulary of the properties *)

\* the cycles so far: the logged ones and, while the scale patch call is in
\* flight, the current one
Hist == IF pc = "patch" THEN Append(log, LogLine("pending", loc, now)) ELSE log

\* the cycle that just ended
LastLine == log[Len(log)]
CycleEnded == pc = "sleep" /\ log # << >>

\* the cycle that just ended wrote a replica count
Scaled == CycleEnded /\ LastLine.res = "scaled"

\* the decision of the current cycle has been taken
Decided == pc \in { "patch", "sleep" } /\ loc.u_smooth # None

\* cycle j asked for a scale at a time the cooldown of every earlier applied
\* scale had elapsed
OutsideCooldown(h, j) ==
    \A i \in 1..(j - 1) :
        h[i].res = "scaled" => h[j].gate - h[i].at >= COOLDOWN_PERIOD

\* cycle j asked for direction d, outside the cooldown, and no update was issued
StreakBlocked(h, j, d) ==
    /\ h[j].req = d
    /\ h[j].res = "cooldown"
    /\ OutsideCooldown(h, j)

-----------------------------------------------------------------------------
(* C1 .. C10 *)

\* C1: in every cycle that issues a scale update, the written replica count
\* exceeds the count read at the start of the cycle by at most SCALE_UP_STEP
\* and falls below it by at most SCALE_DOWN_STEP.
C1_StepBound ==
    Scaled =>
        /\ replicas = loc.bounded
        /\ replicas # loc.current
        /\ replicas > loc.current => replicas - loc.current <= SCALE_UP_STEP
        /\ replicas < loc.current => loc.current - replicas <= SCALE_DOWN_STEP

\* a cycle wrote current + SCALE_UP_STEP although the fused candidate asked
\* for more
C1_Witness ==
    /\ Scaled
    /\ loc.desired - loc.current > SCALE_UP_STEP
    /\ replicas = loc.current + SCALE_UP_STEP

\* C2 as stated: every replica count written lies in
\* [MIN_REPLICAS, MAX_REPLICAS], whatever count was read.
C2_WrittenInRange ==
    Scaled => (MIN_REPLICAS <= replicas /\ replicas <= MAX_REPLICAS)

\* C2 amended: the written count lies in [MIN_REPLICAS, MAX_REPLICAS] when the
\* count read is at least MIN_REPLICAS - SCALE_UP_STEP and at most
\* MAX_REPLICAS + SCALE_DOWN_STEP; when the count read is farther above the
\* ceiling, the written count is one down step below the count read.
C2_WrittenInRangeNearBounds ==
    Scaled =>
        /\ (/\ MIN_REPLICAS - SCALE_UP_STEP <= loc.current
            /\ loc.current <= MAX_REPLICAS + SCALE_DOWN_STEP)
           => (MIN_REPLICAS <= replicas /\ replicas <= MAX_REPLICAS)
        /\ loc.current > MAX_REPLICAS + SCALE_DOWN_STEP
           => replicas = loc.current - SCALE_DOWN_STEP

\* a cycle read a count outside the bounds and wrote one inside them
C2_Witness ==
    /\ Scaled
    /\ loc.current < MIN_REPLICAS
    /\ MIN_REPLICAS <= replicas /\ replicas <= MAX_REPLICAS

\* C3: an update is issued only when at least COOLDOWN_PERIOD has passed since
\* every earlier applied update was recorded, whatever the two directions.
C3_Cooldown ==
    \A j \in DOMAIN Hist :
        Hist[j].issued => OutsideCooldown(Hist, j)

\* a cycle asked to reverse the last applied scale inside its cooldown and
\* issued no update
C3_Witness ==
    \E i, j \in DOMAIN log :
        /\ i < j
        /\ log[i].res = "scaled"
        /\ log[j].req = -log[i].req
        /\ log[j].gate - log[i].at < COOLDOWN_PERIOD
        /\ log[j].res = "cooldown"
        /\ ~log[j].issued

\* cycles a < b < c < j applied a scale in direction d, and no cycle from a up
\* to j asked for the opposite direction
ThreeInARow(h, j, d) ==
    \E a, b, c \in 1..(j - 1) :
        /\ a < b /\ b < c
        /\ \A i \in { a, b, c } : h[i].res = "scaled" /\ h[i].req = d
        /\ \A k \in a..(j - 1) : h[k].req # -d

\* C4: after three applied scales in one direction with no request for the
\* opposite direction in between, a cycle asking for that direction again
\* issues no update.
C4_StreakCap ==
    \A j \in DOMAIN Hist : \A d \in { 1, -1 } :
        (Hist[j].req = d /\ ThreeInARow(Hist, j, d)) => ~Hist[j].issued

\* the fourth request came with the cooldown elapsed and was blocked
C4_Witness ==
    \E j \in DOMAIN log : \E d \in { 1, -1 } :
        /\ ThreeInARow(log, j, d)
        /\ StreakBlocked(log, j, d)

\* C5: after a request was blocked by the streak cap, a request for the
\* opposite direction made outside the cooldown (no scale applied in between)
\* passes both gates: the update is issued, and applied unless the call raises.
C5_ReversalPasses ==
    \A j, k \in DOMAIN Hist : \A d \in { 1, -1 } :
        (/\ j < k
         /\ StreakBlocked(Hist, j, d)
         /\ Hist[k].req = -d
         /\ OutsideCooldown(Hist, k)
         /\ \A m \in (j + 1)..(k - 1) : Hist[m].res # "scaled")
        => /\ Hist[k].issued
           /\ Hist[k].res \in { "pending", "scaled", "error" }

\* a reversed request after a streak block was applied
C5_Witness ==
    \E j, k \in DOMAIN log : \E d \in { 1, -1 } :
        /\ j < k
        /\ StreakBlocked(log, j, d)
        /\ log[j].ctrl0[3] = 3
        /\ log[k].req = -d
        /\ log[k].res = "scaled"
        /\ \A m \in (j + 1)..(k - 1) : log[m].res # "scaled"

\* C6 as stated: in every cycle whose requested direction differs from the
\* stored direction, consecutive_scales is reset to 0 in that cycle.
C6_ResetOnAnyChange ==
    [][ (pc = "decide" /\ pc' # "decide"
         /\ loc'.scale_direction # scale_direction)
        => consecutive_scales' = 0 ]_vars

\* C6 amended: a requested direction up or down that differs from the stored
\* direction and comes outside the cooldown window resets consecutive_scales
\* to 0 and stores the requested direction; a request inside the cooldown
\* window and a requested direction 'none' leave both unchanged.
C6_ResetOutsideCooldown ==
    [][ (pc = "decide" /\ pc' # "decide") =>
        IF /\ loc'.scale_direction # 0
           /\ now - last_scale_time >= COOLDOWN_PERIOD
        THEN IF loc'.scale_direction # scale_direction
             THEN /\ consecutive_scales' = 0
                  /\ scale_direction' = loc'.scale_direction
             ELSE UNCHANGED << scale_direction, consecutive_scales >>
        ELSE UNCHANGED << scale_direction, consecutive_scales >> ]_vars

\* a streak that had begun was reset by a reversed request
C6_Witness ==
    /\ pc = "patch"
    /\ loc.ctrl0[3] > 0
    /\ loc.scale_direction = -loc.ctrl0[2]
    /\ consecutive_scales = 0
    /\ scale_direction = loc.scale_direction

\* the largest element of a non-empty set of integers
SetMax(S) == CHOOSE x \in S : \A y \in S : y <= x

\* C8: the fused candidate is the largest of the users, CPU and latency
\* candidates and, only in a cycle with a GPU reading, the GPU candidate,
\* clamped to [MIN_REPLICAS, MAX_REPLICAS].
C8_FusedIsMax ==
    Decided =>
        LET cands ==
              { compute_desired_by_users(Trunc(loc.u_smooth), loc.current),
                compute_desired_by_util(loc.c_smooth, CPU_TARGET, loc.current),
                compute_desired_by_latency(loc.l_smooth, LATENCY_TARGET_MS,
                                           loc.current) }
              \cup (IF loc.gpu_util # None
                    THEN { compute_desired_by_util(gpu_ewma, GPU_TARGET,
                                                   loc.current) }
                    ELSE { })
            m == SetMax(cands)
        IN  loc.desired = (IF m < MIN_REPLICAS THEN MIN_REPLICAS
                           ELSE IF m > MAX_REPLICAS THEN MAX_REPLICAS
                           ELSE m)

\* the GPU candidate alone decided the fused candidate
C8_Witness ==
    /\ Decided
    /\ loc.gpu_util # None
    /\ loc.desired_g # None
    /\ loc.desired_g[1] > loc.desired_u
    /\ loc.desired_g[1] > loc.desired_c
    /\ loc.desired_g[1] > loc.desired_l
    /\ loc.desired = loc.desired_g[1]

\* C9 as stated: a cycle that applies no scale update leaves last_scale_time,
\* scale_direction and consecutive_scales as they were before the cycle.
C9_StateOnlyOnApplied ==
    (CycleEnded /\ LastLine.res # "scaled") => ctrl = loc.ctrl0

\* C9 amended: a cycle that applies no update leaves last_scale_time as it
\* was; it leaves the direction and the count as they were too when the
\* request is blocked by a gate, is 'none' or the cycle fails before the gate;
\* when the request passes the gates and the update is not applied, the count
\* is not incremented, and a requested direction that differs from the stored
\* one has become the stored direction with the count reset to 0.
C9_StateAfterUnappliedCycle ==
    (CycleEnded /\ LastLine.res # "scaled") =>
        /\ last_scale_time = loc.ctrl0[1]
        /\ IF loc.allowed /\ LastLine.res \in { "error", "step_limits" }
           THEN IF loc.scale_direction = loc.ctrl0[2]
                THEN ctrl = loc.ctrl0
                ELSE /\ scale_direction = loc.scale_direction
                     /\ consecutive_scales = 0
           ELSE ctrl = loc.ctrl0

\* a reversed request passed the gates, the patch call raised, and the streak
\* count of the cycle's start is gone
C9_Witness ==
    /\ CycleEnded
    /\ LastLine.res = "error"
    /\ loc.allowed
    /\ loc.ctrl0[3] > 0
    /\ loc.scale_direction = -loc.ctrl0[2]
    /\ consecutive_scales = 0

-----------------------------------------------------------------------------
(* A single call of one of the pure functions on arguments drawn from      *)
(* bounded sets                                                             *)

\* values of USERS_TARGET_PER_POD the environment can set, zero included
PerPodTargets == { 0, 1, 3, 10 }

PureConfigs ==
    { [ c EXCEPT !.USERS_TARGET_PER_POD = p ] : c \in Configs, p \in PerPodTargets }

\* utilisation percentages passed to compute_desired_by_util: on, next to and
\* far from the band limits 0.5, 0.7, 1.0, 1.05 and 1.2 of both targets
UtilValues ==
    { << 0, 1 >>, << 24, 1 >>, << 25, 1 >>, << 34, 1 >>, << 35, 1 >>,
      << 36, 1 >>, << 42, 1 >>, << 50, 1 >>, << 51, 1 >>, << 105, 2 >>,
      << 53, 1 >>, << 60, 1 >>, << 61, 1 >>, << 63, 1 >>, << 64, 1 >>,
      << 72, 1 >>, << 73, 1 >>, << 100, 1 >> }

\* latencies in ms passed to compute_desired_by_latency: zero, and on, next to
\* and far from the band limits 0.5, 1.0 and 1.5 of the target
LatencyValues ==
    { << 0, 1 >>, << 1, 2 >>, << 50, 1 >>, << 199, 2 >>, << 100, 1 >>,
      << 101, 1 >>, << 200, 1 >>, << 401, 2 >>, << 300, 1 >>, << 601, 2 >>,
      << 900, 1 >> }

\* pods of a list passed to get_users_and_cpu and get_avg_latency: healthy,
\* healthy with no latency sample yet, timing out, answering 503 with a body,
\* answering with a body that is not JSON, with fields that do not convert,
\* and without an address
PodKinds ==
    { HealthyPod(40, 80, 100),
      HealthyPod(10, 30, 0),
      Pod(TRUE, FALSE, 200, "ok", 40, 99, 900),
      Pod(TRUE, TRUE, 503, "ok", 7, 60, 300),
      Pod(TRUE, TRUE, 200, "not_json", 40, 99, 900),
      Pod(TRUE, TRUE, 200, "bad_users", 40, 99, 900),
      Pod(TRUE, TRUE, 200, "bad_cpu", 5, 99, 200),
      Pod(FALSE, TRUE, 200, "ok", 40, 99, 900) }

\* the pod lists of at most MaxPods pods
PodLists == UNION { [ 1..n -> PodKinds ] : n \in 0..MaxPods }

\* inputs of EWMASignal.update: zero, a whole and a fractional value
EwmaInputs == { << 0, 1 >>, << 10, 1 >>, << 5, 2 >> }

\* the input sequences of at most MaxUpdates updates of one smoother
EwmaInputSeqs == UNION { [ 1..n -> EwmaInputs ] : n \in 1..MaxUpdates }

\* c is a call of one of the functions on arguments of the bounded sets
IsPureCall(c) ==
    \/ c \in
       { [ fn |-> "EWMASignal.update", args |-> xs, result |-> << >> ] :
        xs \in EwmaInputSeqs }
    \/ c \in
       { [ fn |-> f, args |-> << pods >>, result |-> << >> ] :
        f \in { "get_users_and_cpu", "get_avg_latency" }, pods \in PodLists }
    \/ c \in
       { [ fn |-> "clamp_step", args |-> << current, desired >>,
        result |-> << >> ] : current \in 0..MaxArg, desired \in 0..MaxArg }
    \/ c \in
       { [ fn |-> "compute_desired_by_util", args |-> << v, t, r >>,
        result |-> << >> ] :
        v \in UtilValues, t \in { 0, CPU_TARGET, GPU_TARGET }, r \in 0..MaxArg }
    \/ c \in
       { [ fn |-> "compute_desired_by_latency", args |-> << v, t, r >>,
        result |-> << >> ] :
        v \in LatencyValues, t \in { 0, LATENCY_TARGET_MS }, r \in 0..MaxArg }
    \/ c \in
       { [ fn |-> "compute_desired_by_users", args |-> << u1, u2 >>,
        result |-> << >> ] : u1 \in 0..MaxUsers, u2 \in 0..MaxUsers }

InitPure ==
    /\ cfg \in PureConfigs
    /\ pc = "call"
    /\ now = StartTime
    /\ replicas = 1
    /\ user_ewma = None
    /\ cpu_ewma = None
    /\ gpu_ewma = None
    /\ latency_ewma = None
    /\ last_scale_time = 0
    /\ scale_direction = 0
    /\ consecutive_scales = 0
    /\ loc = FreshLocals(0)
    /\ log = << >>
    /\ env = [ load |-> IdleLoad, patch_latency |-> 0, changes |-> 0,
               disturbances |-> 0, cycles |-> 0, trace |-> FALSE ]
    /\ IsPureCall(call)

CallClampStep ==
    /\ pc = "call"
    /\ call.fn = "clamp_step"
    /\ call.result = << >>
    /\ call' = [ call EXCEPT
                 !.result = << clamp_step(call.args[1], call.args[2]) >> ]
    /\ UNCHANGED << cfg, pc, now, replicas, loc, ewmas, ctrl, log, env >>

CallDesiredByUtil ==
    /\ pc = "call"
    /\ call.fn = "compute_desired_by_util"
    /\ call.result = << >>
    /\ call' = [ call EXCEPT
                 !.result = << compute_desired_by_util(call.args[1],
                                   call.args[2], call.args[3]) >> ]
    /\ UNCHANGED << cfg, pc, now, replicas, loc, ewmas, ctrl, log, env >>

CallDesiredByLatency ==
    /\ pc = "call"
    /\ call.fn = "compute_desired_by_latency"
    /\ call.result = << >>
    /\ call' = [ call EXCEPT
                 !.result = << compute_desired_by_latency(call.args[1],
                                   call.args[2], call.args[3]) >> ]
    /\ UNCHANGED << cfg, pc, now, replicas, loc, ewmas, ctrl, log, env >>

\* two calls of compute_desired_by_users, on the first and on the second user
\* count (the replicas argument is not used by the function)
CallDesiredByUsers ==
    /\ pc = "call"
    /\ call.fn = "compute_desired_by_users"
    /\ call.result = << >>
    /\ call' = [ call EXCEPT
                 !.result = << compute_desired_by_users(call.args[1], 0),
                               compute_desired_by_users(call.args[2], 0) >> ]
    /\ UNCHANGED << cfg, pc, now, replicas, loc, ewmas, ctrl, log, env >>

CallUsersAndCpu ==
    /\ pc = "call"
    /\ call.fn = "get_users_and_cpu"
    /\ call.result = << >>
    /\ call' = [ call EXCEPT !.result = << get_users_and_cpu(call.args[1]) >> ]
    /\ UNCHANGED << cfg, pc, now, replicas, loc, ewmas, ctrl, log, env >>

CallAvgLatency ==
    /\ pc = "call"
    /\ call.fn = "get_avg_latency"
    /\ call.result = << >>
    /\ call' = [ call EXCEPT !.result = << get_avg_latency(call.args[1]) >> ]
    /\ UNCHANGED << cfg, pc, now, replicas, loc, ewmas, ctrl, log, env >>

\* the next update of a smoother created unset (user_ewma is its value) on
\* the inputs call.args, one call per step; call.result collects the returns
CallEwmaUpdate ==
    /\ pc = "call"
    /\ call.fn = "EWMASignal.update"
    /\ Len(call.result) < Len(call.args)
    /\ user_ewma' = EWMA_update(user_ewma, call.args[Len(call.result) + 1])
    /\ call' = [ call EXCEPT !.result = Append(@, user_ewma') ]
    /\ UNCHANGED << cfg, pc, now, replicas, loc, cpu_ewma, gpu_ewma,
                    latency_ewma, ctrl, log, env >>

NextPure ==
    \/ CallEwmaUpdate
    \/ CallUsersAndCpu
    \/ CallAvgLatency
    \/ CallClampStep
    \/ CallDesiredByUtil
    \/ CallDesiredByLatency
    \/ CallDesiredByUsers

SpecPure == InitPure /\ [][NextPure]_vars

\* C10: clamp_step returns current when the candidate equals current, and
\* otherwise a value beyond current on the candidate's side and not beyond
\* the candidate.
C10_ClampTowardCandidate ==
    (call.fn = "clamp_step" /\ call.result # << >>) =>
        LET current == call.args[1]
            desired == call.args[2]
            r == call.result[1]
        IN  /\ desired = current => r = current
            /\ desired > current => (current < r /\ r <= desired)
            /\ desired < current => (desired <= r /\ r < current)

\* the candidate was nearer than a full up step and the call returned the
\* candidate
C10_Witness ==
    /\ call.fn = "clamp_step" /\ call.result # << >>
    /\ call.args[2] > call.args[1]
    /\ call.args[2] < call.args[1] + SCALE_UP_STEP
    /\ call.result[1] = call.args[2]

-----------------------------------------------------------------------------
(* C11 .. C14: the calculators as pure functions *)

\* a call of fn has returned
Returned(fn) == call.fn = fn /\ call.result # << >>

\* C11 as stated: compute_desired_by_util returns a value in
\* [MIN_REPLICAS, MAX_REPLICAS] for every utilisation and every replica count
\* passed to it.
C11_UtilInRange ==
    Returned("compute_desired_by_util") =>
        (MIN_REPLICAS <= call.result[1] /\ call.result[1] <= MAX_REPLICAS)

\* C11 amended: compute_desired_by_util returns a value in
\* [MIN_REPLICAS, MAX_REPLICAS] whenever the replica count passed to it is in
\* that range; for a replica count outside the range the value returned is at
\* least min(replicas, MIN_REPLICAS) and at most max(replicas, MAX_REPLICAS).
C11_UtilInRangeOfCurrent ==
    Returned("compute_desired_by_util") =>
        LET r == call.args[3]
            d == call.result[1]
        IN  /\ (MIN_REPLICAS <= r /\ r <= MAX_REPLICAS)
               => (MIN_REPLICAS <= d /\ d <= MAX_REPLICAS)
            /\ Min(r, MIN_REPLICAS) <= d
            /\ d <= Max(r, MAX_REPLICAS)

\* a replica count inside the range whose double is above the ceiling: the
\* call returned the ceiling
C11_Witness ==
    /\ Returned("compute_desired_by_util")
    /\ call.args[3] <= MAX_REPLICAS
    /\ call.args[3] * 2 > MAX_REPLICAS
    /\ call.result[1] = MAX_REPLICAS

\* C12: for a positive target compute_desired_by_util follows the five-band
\* table on ratio = value / target: above 1.2 min(current * 2, MAX); above
\* 1.05 up to 1.2 min(current + 2, MAX); above 1.0 up to 1.05
\* min(current + 1, MAX); from 0.7 up to 1.0 current; below 0.7
\* max(current - 1, MIN).  (value = n / d, so ratio > a / b is n * b > a * d * t.)
C12_UtilBands ==
    (Returned("compute_desired_by_util") /\ call.args[2] > 0) =>
        LET n == call.args[1][1]
            d == call.args[1][2]
            t == call.args[2]
            current == call.args[3]
            res == call.result[1]
        IN  /\ n * 5 > 6 * d * t => res = Min(current * 2, MAX_REPLICAS)
            /\ (n * 20 > 21 * d * t /\ n * 5 <= 6 * d * t)
               => res = Min(current + 2, MAX_REPLICAS)
            /\ (n > d * t /\ n * 20 <= 21 * d * t)
               => res = Min(current + 1, MAX_REPLICAS)
            /\ (n * 10 >= 7 * d * t /\ n <= d * t) => res = current
            /\ n * 10 < 7 * d * t => res = Max(current - 1, MIN_REPLICAS)

\* a ratio of exactly 1.2 added two replicas, where doubling would have
\* added more
C12_Witness ==
    /\ Returned("compute_desired_by_util")
    /\ call.args[2] > 0
    /\ call.args[1][1] * 5 = 6 * call.args[1][2] * call.args[2]
    /\ call.args[3] > 2
    /\ call.args[3] + 2 <= MAX_REPLICAS
    /\ call.result[1] = call.args[3] + 2

\* the four-band table of the latency candidate on ratio = n / (d * t)
LatencyBand(n, d, t, current) ==
    IF n * 2 > 3 * d * t THEN Min(current * 2, MAX_REPLICAS)
    ELSE IF n > d * t THEN Min(current + 1, MAX_REPLICAS)
    ELSE IF n * 2 >= d * t THEN current
    ELSE Max(current - 1, MIN_REPLICAS)

\* C13 as stated: for a positive target compute_desired_by_latency follows the
\* four-band table for every latency, a latency of 0 included (ratio 0 is
\* below 0.5: max(current - 1, MIN)).
C13_LatencyBandsFromZero ==
    (Returned("compute_desired_by_latency") /\ call.args[2] > 0) =>
        call.result[1] = LatencyBand(call.args[1][1], call.args[1][2],
                                     call.args[2], call.args[3])

\* C13 amended: for a positive target compute_desired_by_latency follows the
\* four-band table for every latency above 0, and returns current unchanged
\* for a latency of 0.
C13_LatencyBandsAboveZero ==
    (Returned("compute_desired_by_latency") /\ call.args[2] > 0) =>
        call.result[1] = IF call.args[1][1] > 0
                         THEN LatencyBand(call.args[1][1], call.args[1][2],
                                          call.args[2], call.args[3])
                         ELSE call.args[3]

\* a latency of 0 with a replica count above the floor: the call returned the
\* replica count
C13_Witness ==
    /\ Returned("compute_desired_by_latency")
    /\ call.args[2] > 0
    /\ call.args[1][1] = 0
    /\ call.args[3] > MIN_REPLICAS
    /\ call.result[1] = call.args[3]

\* C14: compute_desired_by_users is monotonic non-decreasing in the user
\* count and never below MIN_REPLICAS, for every user count of at least 0 and
\* every USERS_TARGET_PER_POD.
C14_UsersMonotonic ==
    Returned("compute_desired_by_users") =>
        /\ call.args[1] <= call.args[2] => call.result[1] <= call.result[2]
        /\ call.result[1] >= MIN_REPLICAS
        /\ call.result[2] >= MIN_REPLICAS

\* no users gave the floor, more users gave more, with a target that is not
\* positive
C14_Witness ==
    /\ Returned("compute_desired_by_users")
    /\ USERS_TARGET_PER_POD <= 0
    /\ call.args[1] = 0
    /\ call.result[1] = MIN_REPLICAS
    /\ call.result[2] > call.result[1]

-----------------------------------------------------------------------------
(* C22, C23: the collection functions as pure functions *)

\* the pod answered the metrics request with a success status and a
\* well-formed body
Answered(p) ==
    p.pod_ip /\ p.reachable /\ p.status_code = 200 /\ p.body = "ok"

\* the pods of a list that answered, in order
AnsweredOf(pods) == SelectSeq(pods, Answered)

\* C22: get_users_and_cpu returns the sum of active_users and the mean of
\* cpu_percent over the pods that answered with a success status and a
\* well-formed body, every other pod adding nothing to either, and 0 and 0
\* when no pod answered.
C22_UsersCpuOverAnswered ==
    Returned("get_users_and_cpu") =>
        LET ok == AnsweredOf(call.args[1])
            users == [ i \in 1..Len(ok) |-> ok[i].active_users ]
            cpus == [ i \in 1..Len(ok) |-> ok[i].cpu_percent ]
        IN  call.result[1] =
              << SumSeq(users),
                 IF Len(ok) > 0 THEN Rat(SumSeq(cpus), Len(ok)) ELSE FromInt(0) >>

\* C23: get_avg_latency returns the mean of the reported matrix p50 latency
\* over the pods that answered with a success status and a well-formed body,
\* a pod reporting 0 counted, and 0 when no pod answered.
C23_LatencyOverAnswered ==
    Returned("get_avg_latency") =>
        LET ok == AnsweredOf(call.args[1])
            lats == [ i \in 1..Len(ok) |-> ok[i].matrix ]
        IN  call.result[1] =
              IF Len(ok) > 0 THEN Rat(SumSeq(lats), Len(ok)) ELSE FromInt(0)

-----------------------------------------------------------------------------
(* C24: EWMASignal *)

RECURSIVE RatPow(_, _)
\* a to the power n, n >= 0
RatPow(a, n) == IF n = 0 THEN FromInt(1) ELSE RatMul(a, RatPow(a, n - 1))

\* the share of input j in the value after k updates
EwmaTerm(xs, k, j) ==
    LET decay == RatPow(RatSub(FromInt(1), ALPHA), k - j)
    IN  RatMul(IF j = 1 THEN decay ELSE RatMul(ALPHA, decay), xs[j])

RECURSIVE EwmaClosed(_, _, _)
\* the sum of the shares of inputs j..k in the value after k updates
EwmaClosed(xs, k, j) ==
    IF j > k THEN FromInt(0)
    ELSE RatAdd(EwmaTerm(xs, k, j), EwmaClosed(xs, k, j + 1))

\* C24: the first update of a smoother created unset returns its input; the
\* k-th update returns (1-alpha)^(k-1) * x1 + the sum over j = 2..k of
\* alpha * (1-alpha)^(k-j) * xj, a function of alpha and the inputs alone;
\* the value stored is the value returned last.
C24_EwmaClosedForm ==
    call.fn = "EWMASignal.update" =>
        /\ \A k \in 1..Len(call.result) :
              call.result[k] = EwmaClosed(call.args, k, 1)
        /\ Len(call.result) >= 1 => call.result[1] = call.args[1]
        /\ user_ewma = IF call.result = << >> THEN None
                       ELSE call.result[Len(call.result)]

\* three updates with three different inputs and an alpha below 1
C24_Witness ==
    /\ call.fn = "EWMASignal.update"
    /\ Len(call.result) = 3
    /\ RatLt(ALPHA, FromInt(1))
    /\ call.args[1] # call.args[2]
    /\ call.args[2] # call.args[3]
    /\ call.args[1] # call.args[3]
    /\ call.result[3] # call.args[3]

-----------------------------------------------------------------------------
(* C15 .. C20: the control loop *)

\* C15: the users candidate of a cycle is
\* max(ceil(smoothed_users / USERS_TARGET_PER_POD), MIN_REPLICAS), smoothed_users
\* being the value the users smoother returned in that cycle, whole or not.
C15_UsersCandidateCeil ==
    Decided =>
        loc.desired_u =
            Max(CeilDiv(loc.u_smooth[1], loc.u_smooth[2] * USERS_TARGET_PER_POD),
                MIN_REPLICAS)

\* C16: in a cycle whose GPU reading is absent the GPU smoother keeps its
\* value (it is not fed anything), the cycle has no smoothed GPU value and no
\* GPU candidate, and the fused candidate is the clamped maximum of the users,
\* CPU and latency candidates alone.
C16_AbsentGpuSkipped ==
    [][ /\ (pc = "smooth" /\ pc' = "decide" /\ loc.gpu_util = None)
           => (gpu_ewma' = gpu_ewma /\ loc'.g_smooth = None)
        /\ (pc = "decide" /\ pc' # "decide" /\ loc.gpu_util = None)
           => /\ loc'.desired_g = None
              /\ loc'.desired =
                   Max(MIN_REPLICAS,
                       Min(SetMax({ loc'.desired_u, loc'.desired_c,
                                    loc'.desired_l }), MAX_REPLICAS)) ]_vars

\* the GPU backend is configured and gave a reading in an earlier cycle but
\* none in this one; the value the smoother still holds would have asked for
\* more replicas than the cycle's fused candidate
C16_Witness ==
    /\ Decided
    /\ GPU_PROM_BASE
    /\ loc.gpu_util = None
    /\ gpu_ewma # None
    /\ loc.desired_g = None
    /\ compute_desired_by_util(gpu_ewma, GPU_TARGET, loc.current) > loc.desired

\* C17: a cycle takes 'current' from the orchestrator's count as it is at the
\* read (line 243), keeps that value until the cycle ends, writes the
\* orchestrator's count only by the scale patch call, with the step-clamped
\* value of that 'current', and after the scale patch call only sleeps and
\* starts the next cycle.
C17_FreshReadOneUpdate ==
    [][ /\ (pc = "read" /\ pc' = "list") => loc'.current = replicas
        /\ pc \in { "list", "collect", "smooth", "decide", "patch" }
           => loc'.current = loc.current
        /\ (replicas' # replicas /\ env' = env)
           => /\ pc = "patch" /\ pc' = "sleep"
              /\ replicas' = clamp_step(loc.current, loc.desired)
        /\ (pc = "patch" /\ pc' # "patch") => pc' = "sleep"
        /\ pc = "sleep" => pc' = "read" ]_vars

\* somebody else changed the count after the controller's last write, and the
\* cycle works with the count read, not with the count written
C17_Witness ==
    /\ pc = "list"
    /\ log # << >>
    /\ LastLine.res = "scaled"
    /\ loc.current = replicas
    /\ loc.current # LastLine.bounded

C20_FailedUpdateNoCooldown ==
    /\ (CycleEnded /\ LastLine.res = "error" /\ LastLine.issued)
       => /\ last_scale_time = loc.ctrl0[1]
          /\ consecutive_scales <= loc.ctrl0[3]
    /\ \A j \in DOMAIN Hist :
         (/\ j > 1
          /\ Hist[j - 1].res = "error"
          /\ Hist[j - 1].issued
          /\ Hist[j].req = Hist[j - 1].req)
         => Hist[j].res \in { "pending", "scaled", "error" }

\* the cycle after a failed scale patch call applied the same scale, less
\* than COOLDOWN_PERIOD after the failed attempt
C20_Witness ==
    \E j \in DOMAIN log :
        /\ j > 1
        /\ log[j - 1].res = "error"
        /\ log[j - 1].issued
        /\ log[j].res = "scaled"
        /\ log[j].req = log[j - 1].req
        /\ log[j].bounded = log[j - 1].bounded
        /\ log[j].at - log[j - 1].gate < COOLDOWN_PERIOD

\* C25: the steps of a cycle follow one another in the order read, pod list,
\* per-replica queries, smoothing, decision (candidates, gates, step clamp),
\* scale patch, sleep, a cycle that fails or has nothing to write going
\* straight to the sleep; when the scale patch call is made every smoother
\* with a reading in the cycle holds the value smoothed in that cycle.
C25_CycleOrder ==
    [][ /\ pc' # pc
           => << pc, pc' >> \in
                { << "read", "list" >>, << "read", "sleep" >>,
                  << "list", "collect" >>, << "collect", "smooth" >>,
                  << "smooth", "decide" >>, << "decide", "patch" >>,
                  << "decide", "sleep" >>, << "patch", "sleep" >>,
                  << "sleep", "read" >> }
        /\ (pc = "patch" /\ pc' = "sleep")
           => /\ loc.pods # << >>
              /\ loc.u_smooth # None /\ user_ewma = loc.u_smooth
              /\ loc.c_smooth # None /\ cpu_ewma = loc.c_smooth
              /\ loc.l_smooth # None /\ latency_ewma = loc.l_smooth
              /\ loc.gpu_util # None => gpu_ewma = loc.g_smooth
              /\ loc.desired = Candidates(loc).desired ]_vars

\* a cycle with all four readings has written a replica count
C25_Witness ==
    /\ Scaled
    /\ loc.gpu_util # None
    /\ gpu_ewma = loc.g_smooth
    /\ latency_ewma = loc.l_smooth
    /\ loc.pods # << >>

-----------------------------------------------------------------------------
(* The control loop under a sustained load: SteadyLoad in every cycle, no    *)
(* call fails, nobody else scales the deployment, the loop never stops       *)

InitSteady ==
    /\ cfg \in Configs
    /\ pc = "read"
    /\ now = StartTime
    /\ replicas \in { 1, 2 }
    /\ user_ewma = None
    /\ cpu_ewma = None
    /\ gpu_ewma = None
    /\ latency_ewma = None
    /\ last_scale_time = 0
    /\ scale_direction = 0
    /\ consecutive_scales = 0
    /\ loc = FreshLocals(0)
    /\ log = << >>
    /\ \E d \in PatchLatencies :
         env = [ load |-> SteadyLoad, patch_latency |-> d,
                 changes |-> MaxLoadChanges, disturbances |-> MaxDisturbances,
                 cycles |-> 0, trace |-> FALSE ]
    /\ call = [ fn |-> "none", args |-> << >>, result |-> << >> ]

\* line 302: time.sleep(SYNC_PERIOD), in a run without end. can_scale reads
\* the clock only to compare now - last_scale_time with COOLDOWN_PERIOD, so
\* once the cooldown has elapsed by a full period the clock is held: the
\* comparison stays what it is, and the state space stays finite.
SleepSteady ==
    /\ pc = "sleep"
    /\ now' = IF now - last_scale_time >= COOLDOWN_PERIOD + SYNC_PERIOD
              THEN now
              ELSE now + SYNC_PERIOD
    /\ pc' = "read"
    /\ UNCHANGED << cfg, replicas, loc, ewmas, ctrl, log, env, call >>

NextSteady ==
    \/ ReadReplicas
    \/ ListPods
    \/ Collect
    \/ Smooth
    \/ Decide
    \/ PatchScale
    \/ SleepSteady

\* the loop of main() never stops by itself: some step is always taken
SpecSteady == InitSteady /\ [][NextSteady]_vars /\ WF_vars(NextSteady)

\* the fused candidate of every cycle under SteadyLoad, as long as the
\* replica count is not above it
SteadyTarget ==
    fuse(compute_desired_by_users(120, 0), 0, 0, None)

\* C26: with fresh controller state, current = 2, 120 active users,
\* USERS_TARGET_PER_POD = 10, MAX_REPLICAS = 10, SCALE_UP_STEP = 2 and no other
\* signal asking for more than current, the users candidate is 12, the fused
\* candidate is 10 and the cycle writes the replica count 4.
C26_WorkedScenario ==
    (/\ Decided
     /\ loc.ctrl0 = << 0, 0, 0 >>
     /\ loc.current = 2
     /\ loc.total_users = 120
     /\ USERS_TARGET_PER_POD = 10 /\ MAX_REPLICAS = 10 /\ SCALE_UP_STEP = 2
     /\ loc.desired_c <= loc.current
     /\ loc.desired_l <= loc.current
     /\ loc.desired_g = None)
    => /\ loc.desired_u = 12
       /\ loc.desired = 10
       /\ loc.bounded = 4
       /\ pc = "sleep" => replicas = 4

\* the cycle of the scenario has written 4
C26_Witness ==
    /\ pc = "sleep"
    /\ loc.ctrl0 = << 0, 0, 0 >>
    /\ loc.current = 2
    /\ loc.total_users = 120
    /\ USERS_TARGET_PER_POD = 10 /\ MAX_REPLICAS = 10 /\ SCALE_UP_STEP = 2
    /\ loc.desired_u = 12
    /\ loc.desired = 10
    /\ replicas = 4

\* C7: under a constant fused candidate T above the replica count, with no
\* failing call and nobody else scaling, the replica count eventually is T.
C7_ReachesTarget == <>(replicas = SteadyTarget)

-----------------------------------------------------------------------------
(* The control loop with failing orchestrator calls: the load is constant,   *)
(* nobody else scales the deployment, a read, a list or a scale patch call   *)
(* may raise, the loop never stops by itself                                 *)

InitFaulty ==
    /\ cfg \in Configs
    /\ pc = "read"
    /\ now = StartTime
    /\ replicas = 1
    /\ user_ewma = None
    /\ cpu_ewma = None
    /\ gpu_ewma = None
    /\ latency_ewma = None
    /\ last_scale_time = 0
    /\ scale_direction = 0
    /\ consecutive_scales = 0
    /\ loc = FreshLocals(0)
    /\ log = << >>
    /\ \E d \in PatchLatencies :
         env = [ load |-> SteadyLoad, patch_latency |-> d,
                 changes |-> MaxLoadChanges, disturbances |-> 0,
                 cycles |-> 0, trace |-> FALSE ]
    /\ call = [ fn |-> "none", args |-> << >>, result |-> << >> ]

NextFaulty ==
    \/ ReadReplicas
    \/ ReadFails
    \/ ListPods
    \/ Collect
    \/ Smooth
    \/ Decide
    \/ PatchScale
    \/ PatchFails
    \/ SleepSteady

\* the loop of main() takes its next step whenever it has one
SpecFaulty == InitFaulty /\ [][NextFaulty]_vars /\ WF_vars(NextFaulty)

\* C19: a step of a cycle that raises ends the cycle at the sleep of line
\* 302, the sleep is followed by the read of the next cycle and by nothing
\* else, and after a failed cycle the loop reads the replica count of a next
\* cycle again and again: the controller has not terminated.
C19_LoopSurvivesFailure ==
    /\ [][ /\ env'.disturbances > env.disturbances => pc' = "sleep"
           /\ pc = "sleep" => pc' = "read" ]_vars
    /\ (env.disturbances > 0) ~> (pc = "list")

\* the scale patch call of a cycle raised, and the next cycle has read the
\* replica count
C19_Witness ==
    /\ env.disturbances > 0
    /\ pc = "list"
    /\ loc.current = replicas
    /\ scale_direction # 0
    /\ last_scale_time = 0

-----------------------------------------------------------------------------
(* Startup: load_kube_config under @retry, then the control loop under a     *)
(* constant load with no failing call                                        *)

\* @retry(stop=stop_after_attempt(3), wait=wait_fixed(2))
stop_after_attempt == 3
wait_fixed == 2

\* Variant of retry_stop: one more attempt is made
retry_stop_late(attempt_number) == attempt_number >= stop_after_attempt + 1

\* the stop condition of the retry decorator after a failed attempt
retry_stop(attempt_number) == attempt_number >= stop_after_attempt

InitStart ==
    /\ cfg \in Configs
    /\ pc = "startup"
    /\ now = StartTime
    /\ replicas = 1
    /\ user_ewma = None
    /\ cpu_ewma = None
    /\ gpu_ewma = None
    /\ latency_ewma = None
    /\ last_scale_time = 0
    /\ scale_direction = 0
    /\ consecutive_scales = 0
    /\ loc = FreshLocals(0)
    /\ log = << >>
    /\ \E d \in PatchLatencies :
         env = [ load |-> SteadyLoad, patch_latency |-> d,
                 changes |-> MaxLoadChanges, disturbances |-> MaxDisturbances,
                 cycles |-> 0, trace |-> FALSE ]
    /\ call = [ fn |-> "load_kube_config", args |-> << 1 >>, result |-> << >> ]

\* lines 91-96: an attempt loads the in-cluster or the local configuration;
\* main() goes on to the loop (call.args[1] is the number of the attempt)
LoadKubeConfig ==
    /\ pc = "startup"
    /\ call' = [ call EXCEPT !.result = << "ok" >> ]
    /\ pc' = "read"
    /\ UNCHANGED << cfg, now, replicas, loc, ewmas, ctrl, log, env >>

\* an attempt raises: the decorator waits and calls again, or, when the stop
\* condition holds, raises RetryError out of main()
LoadKubeConfigFails ==
    /\ pc = "startup"
    /\ IF retry_stop(call.args[1])
       THEN /\ call' = [ call EXCEPT !.result = << "RetryError" >> ]
            /\ pc' = "exit"
            /\ now' = now
       ELSE /\ call' = [ call EXCEPT !.args = << call.args[1] + 1 >> ]
            /\ pc' = "startup"
            /\ now' = now + wait_fixed
    /\ UNCHANGED << cfg, replicas, loc, ewmas, ctrl, log, env >>

NextStart ==
    \/ LoadKubeConfig
    \/ LoadKubeConfigFails
    \/ ReadReplicas
    \/ ListPods
    \/ Collect
    \/ Smooth
    \/ Decide
    \/ PatchScale
    \/ Sleep

SpecStart == InitStart /\ [][NextStart]_vars

\* C21: load_kube_config is attempted at most 3 times, attempt k starting
\* 2 * (k - 1) seconds after the first; the loop (any orchestrator read or
\* write) runs only after an attempt succeeded; when the third attempt fails
\* main() ends, having read and written nothing.
C21_StartupRetry ==
    /\ call.args[1] \in 1..3
    /\ pc = "startup" => now = StartTime + 2 * (call.args[1] - 1)
    /\ pc \notin { "startup", "exit" } => call.result = << "ok" >>
    /\ pc = "exit" => /\ call.args[1] = 3
                      /\ call.result = << "RetryError" >>
                      /\ loc = FreshLocals(0)
                      /\ replicas = 1
                      /\ env.cycles = 0

\* two attempts failed, the third succeeded, and the loop has scaled
C21_Witness ==
    /\ call.args[1] = 3
    /\ call.result = << "ok" >>
    /\ pc = "sleep"
    /\ replicas # 1
    /\ last_scale_time >= StartTime + 4

-----------------------------------------------------------------------------
(* Two controller processes against the same deployment. The variables pc,  *)
(* loc, the smoothers and the ScalingController fields are those of the      *)
(* process that takes the next step; env.peer holds those of the other one.  *)
(* The deployment, the clock and the load are shared. Nothing orders the     *)
(* steps of the two processes.                                               *)

\* the private state of the process whose steps are taken now
Process(id) ==
    [ id |-> id, pc |-> pc, loc |-> loc,
      user_ewma |-> user_ewma, cpu_ewma |-> cpu_ewma, gpu_ewma |-> gpu_ewma,
      latency_ewma |-> latency_ewma, last_scale_time |-> last_scale_time,
      scale_direction |-> scale_direction,
      consecutive_scales |-> consecutive_scales ]

InitTwo ==
    /\ cfg \in Configs
    /\ pc = "read"
    /\ now = StartTime
    /\ replicas = 1
    /\ user_ewma = None
    /\ cpu_ewma = None
    /\ gpu_ewma = None
    /\ latency_ewma = None
    /\ last_scale_time = 0
    /\ scale_direction = 0
    /\ consecutive_scales = 0
    /\ loc = FreshLocals(0)
    /\ log = << >>
    /\ env = [ load |-> SteadyLoad, patch_latency |-> 0,
               changes |-> MaxLoadChanges, disturbances |-> MaxDisturbances,
               cycles |-> 0, trace |-> TRUE, switches |-> 0,
               peer |-> Process(2) ]
    /\ call = [ fn |-> "main", args |-> << 1 >>, result |-> << >> ]

\* the other process takes the next steps. The steps between the read and
\* the decision touch nothing the processes share, so the turn passes only
\* before a read, a decision, a scale patch call and a sleep.
Switch ==
    /\ env.cycles < MaxCycles
    /\ env.switches < MaxSwitches
    /\ pc \in { "read", "decide", "patch", "sleep" }
    /\ env' = [ env EXCEPT !.peer = Process(call.args[1]),
                           !.switches = @ + 1 ]
    /\ call' = [ call EXCEPT !.args = << env.peer.id >> ]
    /\ pc' = env.peer.pc
    /\ loc' = env.peer.loc
    /\ user_ewma' = env.peer.user_ewma
    /\ cpu_ewma' = env.peer.cpu_ewma
    /\ gpu_ewma' = env.peer.gpu_ewma
    /\ latency_ewma' = env.peer.latency_ewma
    /\ last_scale_time' = env.peer.last_scale_time
    /\ scale_direction' = env.peer.scale_direction
    /\ consecutive_scales' = env.peer.consecutive_scales
    /\ UNCHANGED << cfg, now, replicas, log >>

NextTwo ==
    \/ ReadReplicas
    \/ ListPods
    \/ Collect
    \/ Smooth
    \/ Decide
    \/ PatchScale
    \/ Sleep
    \/ Switch

SpecTwo == InitTwo /\ [][NextTwo]_vars

\* C27: with two processes every scale update is computed from the count its
\* own process read (the step clamp of that count) and is gated by the
\* cooldown of that process' own earlier updates only; nothing relates it to
\* the updates of the other process.
C27_OwnStateOnly ==
    \A j \in DOMAIN Hist :
        Hist[j].issued =>
            /\ Hist[j].bounded = clamp_step(Hist[j].current, Hist[j].desired)
            /\ \A i \in 1..(j - 1) :
                  (Hist[i].res = "scaled" /\ Hist[i].by = Hist[j].by)
                  => Hist[j].gate - Hist[i].at >= COOLDOWN_PERIOD

\* two successive updates of the deployment came from different processes
\* less than COOLDOWN_PERIOD apart, the second computed from a count read
\* before the first was written: asking for more replicas, it lowered the
\* count the other process had just written
C27_Witness ==
    \E i, j \in DOMAIN log :
        /\ i < j
        /\ log[i].res = "scaled" /\ log[j].res = "scaled"
        /\ \A k \in (i + 1)..(j - 1) : log[k].res # "scaled"
        /\ log[i].by # log[j].by
        /\ log[j].at - log[i].at < COOLDOWN_PERIOD
        /\ log[j].current # log[i].bounded
        /\ log[j].req = 1
        /\ log[j].bounded < log[i].bounded
        /\ replicas = log[j].bounded

-----------------------------------------------------------------------------
(* The control loop started under ModerateLoad: three scales up bring the    *)
(* replica count to the fused candidate, and the load may change afterwards  *)

InitStreak ==
    /\ cfg \in Configs
    /\ pc = "read"
    /\ now = StartTime
    /\ replicas = 1
    /\ user_ewma = None
    /\ cpu_ewma = None
    /\ gpu_ewma = None
    /\ latency_ewma = None
    /\ last_scale_time = 0
    /\ scale_direction = 0
    /\ consecutive_scales = 0
    /\ loc = FreshLocals(0)
    /\ log = << >>
    /\ \E d \in PatchLatencies :
         env = [ load |-> ModerateLoad, patch_latency |-> d, changes |-> 0,
                 disturbances |-> 0, cycles |-> 0, trace |-> TRUE ]
    /\ call = [ fn |-> "none", args |-> << >>, result |-> << >> ]

SpecStreak == InitStreak /\ [][Next]_vars

\* C28: once consecutive_scales is 3 it stays 3 until a cycle asks for the
\* opposite of the stored direction outside the cooldown window, and as long
\* as it is 3 no cycle asking for the stored direction makes the scale patch
\* call; the passing of time and cycles asking for no change leave it at 3.
C28_StreakSticks ==
    [][ consecutive_scales = 3 =>
        /\ consecutive_scales' # 3
           => /\ pc = "decide"
              /\ loc'.scale_direction = -scale_direction
              /\ now - last_scale_time >= COOLDOWN_PERIOD
        /\ (pc = "decide" /\ loc'.scale_direction = scale_direction)
           => pc' = "sleep" ]_vars

\* after three scales up a cycle asked for no change, and a later request up,
\* made when the cooldown had elapsed, was blocked with the count still 3
C28_Witness ==
    \E j, k \in DOMAIN log :
        /\ j < k
        /\ log[j].res = "no_scale"
        /\ log[j].ctrl0[3] = 3
        /\ log[k].ctrl0[3] = 3
        /\ log[k].req = log[j].ctrl0[2]
        /\ StreakBlocked(log, k, log[k].req)
        /\ consecutive_scales = 3

\* C29: the controller's consecutive_scales is always one of 0, 1, 2, 3 and
\* its scale_direction always one of 0, 1, -1, at every step of the loop.
C29_StateRanges ==
    /\ consecutive_scales \in 0..3
    /\ scale_direction \in {0, 1, -1}
    /\ loc.scale_direction \in {0, 1, -1}

\* a third scale in one direction has been recorded
C29_Witness ==
    /\ Scaled
    /\ consecutive_scales = 3
    /\ scale_direction \in {1, -1}

\* C30: when the replica count read is at most MAX_REPLICAS and CPU_TARGET is
\* positive, the fused count is at least the count read minus one, so one
\* cycle lowers the replica count by at most one whatever SCALE_DOWN_STEP is.
C30_DownByOne ==
    (Decided /\ loc.current <= MAX_REPLICAS /\ CPU_TARGET > 0)
    => /\ loc.desired >= loc.current - 1
       /\ Scaled => /\ LastLine.current = loc.current
                    /\ LastLine.bounded >= loc.current - 1

\* a scale down by one with SCALE_DOWN_STEP = 2, where the user candidate
\* alone asked for at least two fewer
C30_Witness ==
    /\ Scaled
    /\ SCALE_DOWN_STEP = 2
    /\ loc.current <= MAX_REPLICAS
    /\ LastLine.bounded = loc.current - 1
    /\ loc.desired_u < loc.current - 1

-----------------------------------------------------------------------------
(* The control loop started against a deployment of four replicas that has   *)
(* served no request yet                                                     *)

InitCold ==
    /\ cfg \in Configs
    /\ pc = "read"
    /\ now = StartTime
    /\ replicas = 4
    /\ user_ewma = None
    /\ cpu_ewma = None
    /\ gpu_ewma = None
    /\ latency_ewma = None
    /\ last_scale_time = 0
    /\ scale_direction = 0
    /\ consecutive_scales = 0
    /\ loc = FreshLocals(0)
    /\ log = << >>
    /\ \E d \in PatchLatencies :
         env = [ load |-> ColdLoad, patch_latency |-> d, changes |-> 0,
                 disturbances |-> 0, cycles |-> 0, trace |-> TRUE ]
    /\ call = [ fn |-> "none", args |-> << >>, result |-> << >> ]

SpecCold == InitCold /\ [][Next]_vars

\* C31: in a cycle whose smoothed latency is 0 or negative and whose replica
\* count read is at most MAX_REPLICAS, the latency candidate equals the count
\* read, the direction asked for is not down, and no lower count is written.
C31_NoDownWithoutLatency ==
    (Decided /\ loc.l_smooth[1] <= 0 /\ loc.current <= MAX_REPLICAS)
    => /\ loc.desired_l = loc.current
       /\ loc.desired >= loc.current
       /\ loc.scale_direction # -1
       /\ CycleEnded => ~(LastLine.issued /\ LastLine.bounded < LastLine.current)

\* a cycle ended without a scale although users and CPU alone both asked for
\* fewer replicas than the four running: the smoothed latency was 0
C31_Witness ==
    /\ CycleEnded
    /\ LastLine.res = "no_scale"
    /\ Decided
    /\ loc.l_smooth = FromInt(0)
    /\ loc.current = 4
    /\ loc.current <= MAX_REPLICAS
    /\ loc.desired_u < loc.current
    /\ loc.desired_c < loc.current
    /\ loc.desired = loc.current
    /\ replicas = 4

\* the value a smoother holding old holds after an update with input x
Blend(old, x) ==
    IF old = None THEN x
    ELSE RatAdd(RatMul(ALPHA, x), RatMul(RatSub(FromInt(1), ALPHA), old))

\* the step ends a cycle whose request the gate rejected or whose direction
\* was 'none'
EndsWithoutRequest ==
    /\ pc = "decide"
    /\ pc' = "sleep"
    /\ log' # log
    /\ log'[Len(log')].res \in { "cooldown", "no_scale" }

\* C32: a cycle whose request the gate rejects, and a cycle whose direction
\* is 'none', leave last_scale_time, scale_direction and consecutive_scales as
\* they were when the cycle began, and the users, CPU and latency smoothers
\* hold the values their update in that cycle returned (the input blended
\* with the value held before).
C32_RejectedCycleFrame ==
    [][ /\ EndsWithoutRequest
           => /\ ctrl' = ctrl
              /\ ctrl' = loc'.ctrl0
              /\ loc'.u_smooth # None
              /\ user_ewma' = loc'.u_smooth
              /\ cpu_ewma' = loc'.c_smooth
              /\ latency_ewma' = loc'.l_smooth
        /\ pc = "smooth"
           => /\ user_ewma' = Blend(user_ewma, FromInt(loc.total_users))
              /\ cpu_ewma' = Blend(cpu_ewma, loc.avg_cpu)
              /\ latency_ewma' = Blend(latency_ewma, loc.avg_latency)
              /\ ctrl' = ctrl ]_vars

\* a request for the opposite of the stored direction was rejected inside the
\* cooldown window: the stored direction and count are those of the earlier
\* scale, and the users smoother has moved to a blend of old and new input
C32_Witness ==
    /\ CycleEnded
    /\ LastLine.res = "cooldown"
    /\ now - last_scale_time < COOLDOWN_PERIOD
    /\ loc.scale_direction = -scale_direction
    /\ consecutive_scales > 0
    /\ ctrl = loc.ctrl0
    /\ user_ewma = loc.u_smooth
    /\ user_ewma # FromInt(loc.total_users)

\* a cycle asking for no change ended with a stored streak untouched
C32_WitnessNone ==
    /\ CycleEnded
    /\ LastLine.res = "no_scale"
    /\ consecutive_scales > 0
    /\ ctrl = loc.ctrl0
    /\ user_ewma = loc.u_smooth

\* cycle j is the first one of the run that asked for a scale
FirstRequest(h, j) ==
    /\ h[j].req # 0
    /\ \A i \in 1..(j - 1) : h[i].req = 0

\* C33: the first cycle after startup that asks for a scale is not rejected
\* by the gate, neither by the cooldown test (last_scale_time is still 0 and
\* the clock is far beyond COOLDOWN_PERIOD) nor by the streak test (the stored
\* direction is still 0, so the request counts as a change of direction).
C33_FirstRequestPasses ==
    \A j \in DOMAIN Hist :
        FirstRequest(Hist, j) =>
            /\ Hist[j].res # "cooldown"
            /\ Hist[j].gate - Hist[j].ctrl0[1] >= COOLDOWN_PERIOD
            /\ Hist[j].ctrl0 = << 0, 0, 0 >>
            /\ Hist[j].res \in { "pending", "scaled" } => Hist[j].issued

\* the run began with a cycle that asked for nothing; the first request came
\* later and was applied
C33_Witness ==
    \E j \in DOMAIN log :
        /\ j > 1
        /\ log[1].res = "no_scale"
        /\ FirstRequest(log, j)
        /\ log[j].res = "scaled"
        /\ log[j].issued

-----------------------------------------------------------------------------
(* The sample workload (src/app/main.py): request handlers run on the        *)
(* threads of the server's pool and share the module's globals. Here env is  *)
(* the module's globals, loc the frames of the handlers, call the last       *)
(* /metrics response; the controller's variables are not used.               *)

Requests == 1..MaxRequests

Routes == { "matrix", "gpu_matrix", "stream", "gpu_job" }

\* the routes that count the request and its processing time
Counting(route) == route \in { "matrix", "gpu_matrix" }

\* the key of latency_hist a route records under
Bucket(route) ==
    CASE route = "matrix" -> "matrix"
      [] route = "stream" -> "stream"
      [] OTHER -> "gpu_job"

concurrent_requests == env.concurrent_requests
active_users == env.active_users
request_count == env.request_count
total_cpu_time == env.total_cpu_time
latency_hist == env.latency_hist

\* the frame of a handler: its route, the statement it is at, the value it
\* has read for the assignment it is executing
Frame(route, at, reg) == [ route |-> route, pc |-> at, reg |-> reg ]

InitRequests ==
    /\ cfg = DefaultConfig
    /\ pc = "serving"
    /\ now = StartTime
    /\ replicas = 1
    /\ user_ewma = None
    /\ cpu_ewma = None
    /\ gpu_ewma = None
    /\ latency_ewma = None
    /\ last_scale_time = 0
    /\ scale_direction = 0
    /\ consecutive_scales = 0
    /\ loc = [ r \in Requests |-> Frame("none", "waiting", 0) ]
    /\ log = << >>
    /\ env = [ concurrent_requests |-> 0, active_users |-> 0,
               request_count |-> 0, total_cpu_time |-> 0,
               latency_hist |-> [ b \in { "matrix", "stream", "gpu_job" } |-> 0 ] ]
    /\ call = [ fn |-> "none", args |-> << >>, result |-> << >> ]

\* a request for one of the four routes is handed to a thread of the pool
Arrive(r) ==
    /\ loc[r].pc = "waiting"
    /\ \E route \in Routes : loc' = [ loc EXCEPT ![r] = Frame(route, "inc_load", 0) ]
    /\ UNCHANGED << cfg, pc, now, replicas, ewmas, ctrl, log, env, call >>

\* the first half of an assignment to a global: the right-hand side is
\* evaluated from the globals as they are now
\*   concurrent_requests += 1             (line 159)
\*   active_users = concurrent_requests   (line 160)
\*   request_count += 1                   (line 161)
\*   total_cpu_time += time.time() - t0   (line 173)
\*   concurrent_requests -= 1             (line 178)
\*   active_users = max(concurrent_requests, 0)   (line 179)
Load(r) ==
    /\ loc[r].pc \in { "inc_load", "au_load", "rc_load", "cpu_load",
                       "dec_load", "max_load" }
    /\ LET at == loc[r].pc
           v == CASE at = "inc_load" -> concurrent_requests + 1
                  [] at = "au_load"  -> concurrent_requests
                  [] at = "rc_load"  -> request_count + 1
                  [] at = "cpu_load" -> total_cpu_time + 1
                  [] at = "dec_load" -> concurrent_requests - 1
                  [] at = "max_load" -> Max(concurrent_requests, 0)
           to == CASE at = "inc_load" -> "inc_store"
                   [] at = "au_load"  -> "au_store"
                   [] at = "rc_load"  -> "rc_store"
                   [] at = "cpu_load" -> "cpu_store"
                   [] at = "dec_load" -> "dec_store"
                   [] at = "max_load" -> "max_store"
       IN  loc' = [ loc EXCEPT ![r] = Frame(loc[r].route, to, v) ]
    /\ UNCHANGED << cfg, pc, now, replicas, ewmas, ctrl, log, env, call >>

\* the second half: the value is stored into the global
Store(r) ==
    /\ loc[r].pc \in { "inc_store", "au_store", "rc_store", "cpu_store",
                       "dec_store", "max_store" }
    /\ LET at == loc[r].pc
           v == loc[r].reg
           to == CASE at = "inc_store" -> "au_load"
                   [] at = "au_store"  -> IF Counting(loc[r].route)
                                          THEN "rc_load" ELSE "work"
                   [] at = "rc_store"  -> "work"
                   [] at = "cpu_store" -> "record"
                   [] at = "dec_store" -> "max_load"
                   [] at = "max_store" -> "done"
       IN  /\ env' = CASE at \in { "inc_store", "dec_store" }
                           -> [ env EXCEPT !.concurrent_requests = v ]
                        [] at \in { "au_store", "max_store" }
                           -> [ env EXCEPT !.active_users = v ]
                        [] at = "rc_store"
                           -> [ env EXCEPT !.request_count = v ]
                        [] at = "cpu_store"
                           -> [ env EXCEPT !.total_cpu_time = v ]
           /\ loc' = [ loc EXCEPT ![r] = Frame(loc[r].route, to, 0) ]
    /\ UNCHANGED << cfg, pc, now, replicas, ewmas, ctrl, log, call >>

\* the body of the try block computes its answer
Work(r) ==
    /\ loc[r].pc = "work"
    /\ loc' = [ loc EXCEPT ![r].pc = IF Counting(loc[r].route)
                                     THEN "cpu_load" ELSE "record" ]
    /\ UNCHANGED << cfg, pc, now, replicas, ewmas, ctrl, log, env, call >>

\* the body of the try block raises (a singular matrix, no memory): the
\* finally clause runs next
WorkRaises(r) ==
    /\ loc[r].pc = "work"
    /\ loc[r].route \in { "matrix", "gpu_matrix" }
    /\ loc' = [ loc EXCEPT ![r].pc = "record" ]
    /\ UNCHANGED << cfg, pc, now, replicas, ewmas, ctrl, log, env, call >>

\* record_latency(endpoint, ms): one more sample in the bucket, which keeps
\* the last 200 (latency_hist is modelled by the number of samples)
RecordLatency(r) ==
    /\ loc[r].pc = "record"
    /\ env' = [ env EXCEPT !.latency_hist[Bucket(loc[r].route)] = Min(@ + 1, 200) ]
    /\ loc' = [ loc EXCEPT ![r].pc = "dec_load" ]
    /\ UNCHANGED << cfg, pc, now, replicas, ewmas, ctrl, log, call >>

\* GET /metrics: active_users is reported as max(active_users, 0)
Metrics ==
    /\ call' = [ fn |-> "metrics", args |-> << >>,
                 result |-> << [ active_users |-> Max(active_users, 0),
                                 request_count |-> request_count ] >> ]
    /\ call' # call
    /\ UNCHANGED << cfg, pc, now, replicas, loc, ewmas, ctrl, log, env >>

NextRequests ==
    \/ \E r \in Requests : Arrive(r)
    \/ \E r \in Requests : Load(r)
    \/ \E r \in Requests : Store(r)
    \/ \E r \in Requests : Work(r)
    \/ \E r \in Requests : WorkRaises(r)
    \/ \E r \in Requests : RecordLatency(r)
    \/ Metrics

SpecRequests == InitRequests /\ [][NextRequests]_vars

\* the requests being handled
InFlight == { r \in Requests : loc[r].pc \notin { "waiting", "done" } }

\* the requests that have added themselves to the counter and not yet taken
\* themselves off
Counted ==
    { r \in Requests :
        loc[r].pc \notin { "waiting", "inc_load", "inc_store", "max_load",
                           "max_store", "done" } }

\* C34: for any interleaving of the handlers the counter concurrent_requests
\* equals the number of requests that have entered and not left, and when no
\* request is in flight it and the active_users that /metrics reports are 0.
C34_CounterIsInFlight ==
    /\ concurrent_requests = Cardinality(Counted)
    /\ InFlight = {} => /\ concurrent_requests = 0
                        /\ Max(active_users, 0) = 0

\* C34, for active_users alone when every update of the counter itself has
\* been applied: with no request in flight and the counter at 0, the reported
\* active_users is 0.
C34_IdleUsersZero ==
    (InFlight = {} /\ concurrent_requests = 0) => Max(active_users, 0) = 0

-----------------------------------------------------------------------------
(* BackgroundLoadManager of the sample workload, CPU side: start_cpu and     *)
(* stop_cpu are called from the handlers of /load/cpu/start, /load/cpu/stop  *)
(* on threads of the server's pool; every start_cpu creates a worker thread. *)
(* Here env is load_mgr (cpu_stop, cpu_thread, status["cpu"], the Thread     *)
(* objects created so far), loc the frames of the callers.                   *)

Callers == 1..MaxCallers

\* util of /load/cpu/start: the default and one other value
UtilTargets == { 30, 70 }

cpu_stop == env.cpu_stop
cpu_thread == env.cpu_thread
status_cpu == env.status_cpu
threads == env.threads

\* Thread.is_alive(): started and not yet finished
is_alive(t) == threads[t].pc \in { "loop", "mark" }

\* the frame of a caller: the method it is in, the statement it is at, the
\* arguments of start_cpu, the thread it joins
CallerFrame(op, at, target_util, duration_s, joined) ==
    [ op |-> op, pc |-> at, target_util |-> target_util,
      duration_s |-> duration_s, joined |-> joined ]

IdleCaller == CallerFrame("none", "idle", 0, FALSE, 0)

InitLoad ==
    /\ cfg = DefaultConfig
    /\ pc = "serving"
    /\ now = StartTime
    /\ replicas = 1
    /\ user_ewma = None
    /\ cpu_ewma = None
    /\ gpu_ewma = None
    /\ latency_ewma = None
    /\ last_scale_time = 0
    /\ scale_direction = 0
    /\ consecutive_scales = 0
    /\ loc = [ c \in Callers |-> IdleCaller ]
    /\ log = << >>
    /\ env = [ cpu_stop |-> FALSE, cpu_thread |-> 0,
               status_cpu |-> [ running |-> FALSE, target_util |-> 0 ],
               threads |-> << >> ]
    /\ call = [ fn |-> "none", args |-> << >>, result |-> << >> ]

\* the callers that will still create a thread in the call they are in
Creating ==
    { c \in Callers : loc[c].op = "start_cpu"
                      /\ loc[c].pc \in { "set", "join_check", "join", "joining",
                                         "stop_mark", "clear", "status",
                                         "create" } }

\* POST /load/cpu/start: start_cpu(util, duration_s, cycle_ms) is entered
\* (duration_s is None or a number of seconds)
BeginStart(c) ==
    /\ loc[c].pc = "idle"
    /\ Len(threads) + Cardinality(Creating) < MaxThreads
    /\ \E u \in UtilTargets, d \in BOOLEAN :
         loc' = [ loc EXCEPT ![c] = CallerFrame("start_cpu", "set", u, d, 0) ]
    /\ UNCHANGED << cfg, pc, now, replicas, ewmas, ctrl, log, env, call >>

\* POST /load/cpu/stop: stop_cpu() is entered
BeginStop(c) ==
    /\ loc[c].pc = "idle"
    /\ loc' = [ loc EXCEPT ![c] = CallerFrame("stop_cpu", "set", 0, FALSE, 0) ]
    /\ UNCHANGED << cfg, pc, now, replicas, ewmas, ctrl, log, env, call >>

\* line 121: self.cpu_stop.set()
SetStop(c) ==
    /\ loc[c].pc = "set"
    /\ env' = [ env EXCEPT !.cpu_stop = TRUE ]
    /\ loc' = [ loc EXCEPT ![c].pc = "join_check" ]
    /\ UNCHANGED << cfg, pc, now, replicas, ewmas, ctrl, log, call >>

\* line 122: if self.cpu_thread and self.cpu_thread.is_alive()
JoinCheck(c) ==
    /\ loc[c].pc = "join_check"
    /\ loc' = [ loc EXCEPT ![c].pc = IF cpu_thread # 0 /\ is_alive(cpu_thread)
                                     THEN "join" ELSE "stop_mark" ]
    /\ UNCHANGED << cfg, pc, now, replicas, ewmas, ctrl, log, env, call >>

\* line 123: self.cpu_thread.join(timeout=1.0) is called on the thread the
\* field refers to now
JoinCalled(c) ==
    /\ loc[c].pc = "join"
    /\ loc' = [ loc EXCEPT ![c].pc = "joining", ![c].joined = cpu_thread ]
    /\ UNCHANGED << cfg, pc, now, replicas, ewmas, ctrl, log, env, call >>

\* join returns because the thread has finished
JoinReturns(c) ==
    /\ loc[c].pc = "joining"
    /\ ~is_alive(loc[c].joined)
    /\ loc' = [ loc EXCEPT ![c].pc = "stop_mark", ![c].joined = 0 ]
    /\ UNCHANGED << cfg, pc, now, replicas, ewmas, ctrl, log, env, call >>

\* join returns after one second with the thread still alive
JoinTimesOut(c) ==
    /\ loc[c].pc = "joining"
    /\ is_alive(loc[c].joined)
    /\ loc' = [ loc EXCEPT ![c].pc = "stop_mark", ![c].joined = 0 ]
    /\ UNCHANGED << cfg, pc, now, replicas, ewmas, ctrl, log, env, call >>

\* line 124: self.status["cpu"]["running"] = False; stop_cpu returns
StopMark(c) ==
    /\ loc[c].pc = "stop_mark"
    /\ env' = [ env EXCEPT !.status_cpu.running = FALSE ]
    /\ loc' = [ loc EXCEPT ![c] = IF loc[c].op = "start_cpu"
                                  THEN [ @ EXCEPT !.pc = "clear" ]
                                  ELSE IdleCaller ]
    /\ UNCHANGED << cfg, pc, now, replicas, ewmas, ctrl, log, call >>

\* line 105: self.cpu_stop.clear()
ClearStop(c) ==
    /\ loc[c].pc = "clear"
    /\ env' = [ env EXCEPT !.cpu_stop = FALSE ]
    /\ loc' = [ loc EXCEPT ![c].pc = "status" ]
    /\ UNCHANGED << cfg, pc, now, replicas, ewmas, ctrl, log, call >>

\* line 106: self.status["cpu"] = {"running": True, ...}
SetStatus(c) ==
    /\ loc[c].pc = "status"
    /\ env' = [ env EXCEPT !.status_cpu = [ running |-> TRUE,
                                            target_util |-> loc[c].target_util ] ]
    /\ loc' = [ loc EXCEPT ![c].pc = "create" ]
    /\ UNCHANGED << cfg, pc, now, replicas, ewmas, ctrl, log, call >>

\* lines 107-111: self.cpu_thread = threading.Thread(...)
CreateThread(c) ==
    /\ loc[c].pc = "create"
    /\ env' = [ env EXCEPT
                  !.threads = Append(@, [ pc |-> "new",
                                          duration_s |-> loc[c].duration_s ]),
                  !.cpu_thread = Len(threads) + 1 ]
    /\ loc' = [ loc EXCEPT ![c].pc = "start" ]
    /\ UNCHANGED << cfg, pc, now, replicas, ewmas, ctrl, log, call >>

\* line 112: self.cpu_thread.start() on the thread the field refers to now;
\* a thread that was started already raises RuntimeError
StartThread(c) ==
    /\ loc[c].pc = "start"
    /\ env' = IF threads[cpu_thread].pc = "new"
              THEN [ env EXCEPT !.threads[cpu_thread].pc = "loop" ]
              ELSE env
    /\ loc' = [ loc EXCEPT ![c] = IdleCaller ]
    /\ UNCHANGED << cfg, pc, now, replicas, ewmas, ctrl, log, call >>

\* line 55: the worker finds stop_event set and leaves its loop
WorkerSeesStop(t) ==
    /\ threads[t].pc = "loop"
    /\ cpu_stop
    /\ env' = [ env EXCEPT !.threads[t].pc = "mark" ]
    /\ UNCHANGED << cfg, pc, now, replicas, loc, ewmas, ctrl, log, call >>

\* lines 56-58: duration_s has elapsed and the worker leaves its loop
WorkerDurationEnds(t) ==
    /\ threads[t].pc = "loop"
    /\ threads[t].duration_s
    /\ env' = [ env EXCEPT !.threads[t].pc = "mark" ]
    /\ UNCHANGED << cfg, pc, now, replicas, loc, ewmas, ctrl, log, call >>

\* lines 94-98: self.status["cpu"]["running"] = False, the thread ends
WorkerMarksStopped(t) ==
    /\ threads[t].pc = "mark"
    /\ env' = [ env EXCEPT !.status_cpu.running = FALSE,
                           !.threads[t].pc = "dead" ]
    /\ UNCHANGED << cfg, pc, now, replicas, loc, ewmas, ctrl, log, call >>

NextLoad ==
    \/ \E c \in Callers : BeginStart(c)
    \/ \E c \in Callers : BeginStop(c)
    \/ \E c \in Callers : SetStop(c)
    \/ \E c \in Callers : JoinCheck(c)
    \/ \E c \in Callers : JoinCalled(c)
    \/ \E c \in Callers : JoinReturns(c)
    \/ \E c \in Callers : JoinTimesOut(c)
    \/ \E c \in Callers : StopMark(c)
    \/ \E c \in Callers : ClearStop(c)
    \/ \E c \in Callers : SetStatus(c)
    \/ \E c \in Callers : CreateThread(c)
    \/ \E c \in Callers : StartThread(c)
    \/ \E t \in DOMAIN threads : WorkerSeesStop(t)
    \/ \E t \in DOMAIN threads : WorkerDurationEnds(t)
    \/ \E t \in DOMAIN threads : WorkerMarksStopped(t)

SpecLoad == InitLoad /\ [][NextLoad]_vars

\* the workers inside their duty-cycle loop
Executing == { t \in DOMAIN threads : threads[t].pc = "loop" }

\* no call of start_cpu or stop_cpu is under way and no worker is on its way
\* out (none has been told to stop, none is between its loop and its end)
Settled ==
    /\ \A c \in Callers : loc[c].pc = "idle"
    /\ \A t \in DOMAIN threads : threads[t].pc # "mark"
    /\ ~(cpu_stop /\ Executing # {})

\* C35: for any interleaving of start_cpu, stop_cpu and the workers at most
\* one CPU load worker executes at a time, and once the calls have returned
\* and stopping workers have ended status["cpu"]["running"] is true exactly
\* when a CPU worker is executing.
C35_OneWorkerStatusTrue ==
    /\ Cardinality(Executing) <= 1
    /\ Settled => (status_cpu.running <=> Executing # {})

\* C35, the status alone, while a single worker is executing
C35_StatusOfSingleWorker ==
    (Settled /\ Cardinality(Executing) = 1) => status_cpu.running

\* C35, the number of workers alone
C35_OneWorker == Cardinality(Executing) <= 1

====
